---- MODULE Spec2Model ----
(***************************************************************************)
(* num_string: conversion between locale formatted number strings and      *)
(* native numbers (pattern.rs, string_to_number.rs) and the formatting of  *)
(* native numbers as locale strings (number.rs).                           *)
(*                                                                         *)
(* A string is a sequence of characters, a character a one-element TLA+    *)
(* string.  A regex is evaluated on position sets: an operator takes the   *)
(* set P of numbers of characters consumed so far and returns the set of   *)
(* numbers of characters consumed after the regex piece.                   *)
(***************************************************************************)
EXTENDS Integers, Sequences, FiniteSets, TLC

(***************************************************************************)
(* Bounds of the model.                                                    *)
(***************************************************************************)
MaxTextLen == 4
MaxShapeLen == 5
MaxFracLen == 3
MaxFractionDigit == 3
MaxAdded == 2

(***************************************************************************)
(* Characters.                                                             *)
(***************************************************************************)
AsciiDigits == {"0", "1", "2", "3", "4", "5", "6", "7", "8", "9"}

\* U+0663 ARABIC-INDIC DIGIT THREE: in \p{Nd}, so matched by \d, not by [0-9]
ArabicThree == "U+0663"

UnicodeDigits == AsciiDigits \cup {ArabicThree}

\* the characters of the model that the regex class \s matches
Whitespace == {" ", "\t"}

Signs == {"-", "+"}

DigitValue ==
  [c \in AsciiDigits |->
     CASE c = "0" -> 0 [] c = "1" -> 1 [] c = "2" -> 2 [] c = "3" -> 3
       [] c = "4" -> 4 [] c = "5" -> 5 [] c = "6" -> 6 [] c = "7" -> 7
       [] c = "8" -> 8 [] c = "9" -> 9]

DigitChar ==
  [d \in 0..9 |-> CHOOSE c \in AsciiDigits : DigitValue[c] = d]

\* Option<T>
None == <<>>

Some(x) == <<x>>

IsSome(o) == Len(o) = 1

Unwrap(o) == o[1]

Ok(v) == [kind |-> "Ok", val |-> v]

Err(e) == [kind |-> "Err", val |-> e]

\* a panic (failed unwrap, failed assert!, arithmetic overflow): the call aborts
Panic == [kind |-> "Panic", val |-> "panic"]

(***************************************************************************)
(* Separator (pattern.rs)                                                  *)
(***************************************************************************)
SPACE == [kind |-> "SPACE", c |-> ""]

DOT == [kind |-> "DOT", c |-> ""]

COMMA == [kind |-> "COMMA", c |-> ""]

APOSTROPHE == [kind |-> "APOSTROPHE", c |-> ""]

CUSTOM(ch) == [kind |-> "CUSTOM", c |-> ch]

\* From<Separator> for char / String: the literal rendering
SeparatorChar(sep) ==
  CASE sep.kind = "COMMA" -> ","
    [] sep.kind = "DOT" -> "."
    [] sep.kind = "SPACE" -> " "
    [] sep.kind = "APOSTROPHE" -> "'"
    [] sep.kind = "CUSTOM" -> sep.c

\* an atom that matches the literal rendering only
to_string_regex_literal(sep) == {SeparatorChar(sep)}

\* Separator::to_string_regex: the characters matched by the atom "[...]"
to_string_regex(sep) ==
  CASE sep.kind = "COMMA" -> {","}
    [] sep.kind = "DOT" -> {"."}
    [] sep.kind = "SPACE" -> Whitespace
    [] sep.kind = "APOSTROPHE" -> {"'"}
    [] sep.kind = "CUSTOM" -> {sep.c}

\* ThousandGrouping -> &[u8] (block sizes from the least significant digit,
\* the last size repeats)
ThousandGroupingBlocks(g) ==
  IF g = "ThreeBlock" THEN <<3>> ELSE <<3, 2>>

(***************************************************************************)
(* NumberCultureSettings (pattern.rs)                                      *)
(***************************************************************************)
\* #[derive(PartialEq)] of Separator: the same variant with the same payload
Separator_eq(a, b) == a.kind = b.kind /\ a.c = b.c

\* NumberCultureSettings::new without its assertion
NumberCultureSettings_new_unchecked(thousand, decimal) ==
  Ok([thousand_separator |-> thousand,
      decimal_separator |-> decimal,
      thousand_grouping |-> "ThreeBlock"])

\* NumberCultureSettings::new: assert!(thousand_separator != decimal_separator)
\* with the derived PartialEq of Separator (variant and payload)
NumberCultureSettings_new(thousand, decimal) ==
  IF Separator_eq(thousand, decimal)
    THEN Panic
    ELSE Ok([thousand_separator |-> thousand,
             decimal_separator |-> decimal,
             thousand_grouping |-> "ThreeBlock"])

with_grouping(s, g) == [s EXCEPT !.thousand_grouping = g]

Cultures == {"English", "French", "Italian", "Indian"}

\* From<Culture> for NumberCultureSettings
CultureSettings(culture) ==
  CASE culture = "English" -> NumberCultureSettings_new(COMMA, DOT).val
    [] culture = "French" -> NumberCultureSettings_new(SPACE, COMMA).val
    [] culture = "Italian" -> NumberCultureSettings_new(DOT, COMMA).val
    [] culture = "Indian" ->
         with_grouping(NumberCultureSettings_new(COMMA, DOT).val, "TwoBlock")

\* Default for &Culture
DefaultCulture == "English"

\* ConversionError::SeparatorNotFound
SeparatorNotFound == "SeparatorNotFound"

\* the number of bytes of the UTF-8 encoding of a character
Utf8Len(ch) == IF ch = ArabicThree THEN 2 ELSE 1

\* str::len: the length in bytes
ByteLen(value) ==
  IF value = <<>> THEN 0
  ELSE IF Len(value) = 1 THEN Utf8Len(value[1])
  ELSE Utf8Len(value[1]) + Utf8Len(value[2])

\* TryFrom<&str> for Separator
Separator_try_from(value) ==
  CASE value = <<",">> -> Ok(COMMA)
    [] value = <<".">> -> Ok(DOT)
    [] value = <<" ">> -> Ok(SPACE)
    [] value \notin {<<",">>, <<".">>, <<" ">>} /\ ByteLen(value) = 1
         -> Ok(CUSTOM(value[1]))
    [] OTHER -> Err(SeparatorNotFound)

\* From<(&str, &str)> for NumberCultureSettings: both try_from are unwrapped
NumberCultureSettings_from_strs(val0, val1) ==
  IF Separator_try_from(val0).kind # "Ok" \/ Separator_try_from(val1).kind # "Ok"
    THEN Panic
    ELSE NumberCultureSettings_new(Separator_try_from(val0).val,
                                   Separator_try_from(val1).val)

(***************************************************************************)
(* Regex pieces on position sets                                           *)
(***************************************************************************)
\* one character of the class S
Class(s, P, S) ==
  {p + 1 : p \in {q \in P : q < Len(s) /\ s[q + 1] \in S}}

\* S? : zero or one character of the class S
OptClass(s, P, S) == P \cup Class(s, P, S)

RECURSIVE StarClass(_, _, _)
\* S* : any number of characters of the class S
StarClass(s, P, S) ==
  LET Q == P \cup Class(s, P, S)
  IN  IF Q = P THEN P ELSE StarClass(s, Q, S)

\* S+
PlusClass(s, P, S) == StarClass(s, Class(s, P, S), S)

RECURSIVE RepClass(_, _, _, _)
\* S{n}
RepClass(s, P, S, n) ==
  IF n = 0 THEN P ELSE RepClass(s, Class(s, P, S), S, n - 1)

\* S{0,3}
UpTo3Class(s, P, S) ==
  P \cup RepClass(s, P, S, 1) \cup RepClass(s, P, S, 2) \cup RepClass(s, P, S, 3)

\* (T[0-9]{n}) : one block of a separator and n digits
Block(s, P, T, n) == RepClass(s, Class(s, P, T), AsciiDigits, n)

RECURSIVE StarBlock(_, _, _, _)
\* (T[0-9]{n})*
StarBlock(s, P, T, n) ==
  LET Q == P \cup Block(s, P, T, n)
  IN  IF Q = P THEN P ELSE StarBlock(s, Q, T, n)

\* (T[0-9]{n})+
PlusBlock(s, P, T, n) == StarBlock(s, Block(s, P, T, n), T, n)

(***************************************************************************)
(* RegexPattern (pattern.rs)                                               *)
(***************************************************************************)
TypeParsings ==
  {"WholeSimple", "DecimalSimple", "DecimalWithoutWholePart",
   "WholeThousandSeparator", "DecimalThousandSeparator"}

RECURSIVE StarRep(_, _, _, _)
\* (S{n})*
StarRep(s, P, S, n) ==
  LET Q == P \cup RepClass(s, P, S, n)
  IN  IF Q = P THEN P ELSE StarRep(s, Q, S, n)

\* [\-\+]?\d+([0-9]{3})*
WholeSimpleContent(s, P) ==
  StarRep(s, PlusClass(s, OptClass(s, P, Signs), UnicodeDigits), AsciiDigits, 3)

\* [\-\+]?[0-9]+ D [0-9]{1,}
DecimalSimpleContent(s, P, cs) ==
  PlusClass(s,
    Class(s, PlusClass(s, OptClass(s, P, Signs), AsciiDigits),
          to_string_regex(cs.decimal_separator)),
    AsciiDigits)

\* [\-\+]? D [0-9]+
DecimalWithoutWholePartContent(s, P, cs) ==
  PlusClass(s,
    Class(s, OptClass(s, P, Signs), to_string_regex(cs.decimal_separator)),
    AsciiDigits)

\* the WholeThousandSeparator content with the test of the grouping
\* inverted: each grouping gets the regex of the other
WholeThousandSeparatorContent_inverted(s, P, cs) ==
  LET T == to_string_regex(cs.thousand_separator)
  IN  IF cs.thousand_grouping # "ThreeBlock"
        THEN PlusBlock(s, PlusClass(s, OptClass(s, P, Signs), AsciiDigits), T, 3)
        ELSE Block(s,
               StarBlock(s, UpTo3Class(s, OptClass(s, P, Signs), AsciiDigits), T, 2),
               T, 3)

\* ThreeBlock: [\-\+]?[0-9]+(T[0-9]{3})+
\* TwoBlock:   [\-\+]?([0-9]{0,3})(T[0-9]{2})*(T[0-9]{3}){1}
WholeThousandSeparatorContent(s, P, cs) ==
  LET T == to_string_regex(cs.thousand_separator)
  IN  IF cs.thousand_grouping = "ThreeBlock"
        THEN PlusBlock(s, PlusClass(s, OptClass(s, P, Signs), AsciiDigits), T, 3)
        ELSE Block(s,
               StarBlock(s, UpTo3Class(s, OptClass(s, P, Signs), AsciiDigits), T, 2),
               T, 3)

\* the WholeThousandSeparator content, then D [0-9]*
DecimalThousandSeparatorContent(s, P, cs) ==
  StarClass(s,
    Class(s, WholeThousandSeparatorContent(s, P, cs),
          to_string_regex(cs.decimal_separator)),
    AsciiDigits)

\* RegexPattern::new: the content regex of a type of parsing; it panics when
\* a culture dependent type is built without settings
RegexContent(type_parsing, culture_settings, s, P) ==
  CASE type_parsing = "WholeSimple" -> WholeSimpleContent(s, P)
    [] type_parsing = "DecimalSimple" ->
         DecimalSimpleContent(s, P, Unwrap(culture_settings))
    [] type_parsing = "DecimalWithoutWholePart" ->
         DecimalWithoutWholePartContent(s, P, Unwrap(culture_settings))
    [] type_parsing = "WholeThousandSeparator" ->
         WholeThousandSeparatorContent(s, P, Unwrap(culture_settings))
    [] type_parsing = "DecimalThousandSeparator" ->
         DecimalThousandSeparatorContent(s, P, Unwrap(culture_settings))

\* RegexPattern::is_match: prefix ^, content, suffix $
is_match(type_parsing, culture_settings, text) ==
  Len(text) \in RegexContent(type_parsing, culture_settings, text, {0})

\* a kind that is WHOLE for the simple whole pattern only
NumberType_simple_only(type_parsing) ==
  IF type_parsing = "WholeSimple" THEN "WHOLE" ELSE "DECIMAL"

\* From<&TypeParsing> for NumberType
NumberType(type_parsing) ==
  IF type_parsing \in {"WholeSimple", "WholeThousandSeparator"}
    THEN "WHOLE"
    ELSE "DECIMAL"

(***************************************************************************)
(* NumberPatterns, ConvertString (pattern.rs)                              *)
(***************************************************************************)
\* CulturePattern::new: the four culture dependent patterns, in this order
CulturePatternTypes ==
  <<"DecimalSimple", "DecimalWithoutWholePart",
    "WholeThousandSeparator", "DecimalThousandSeparator">>

\* NumberPatterns::default: the common pattern, then per culture its patterns
\* a pattern is [type_parsing, settings]
CommonPatterns == <<[type_parsing |-> "WholeSimple", settings |-> None]>>

CulturePatterns(culture) ==
  [i \in 1..Len(CulturePatternTypes) |->
     [type_parsing |-> CulturePatternTypes[i],
      settings |-> Some(CultureSettings(culture))]]

\* ParsingPattern::build: a pattern is [type_parsing, settings]
ParsingPattern_build(type_parsing, culture_settings) ==
  [type_parsing |-> type_parsing, settings |-> culture_settings]

\* CulturePattern::new: the culture and its four patterns, built with the
\* settings given
CulturePattern_new(culture, culture_settings) ==
  [value |-> culture,
   patterns |-> [i \in 1..Len(CulturePatternTypes) |->
                   ParsingPattern_build(CulturePatternTypes[i],
                                        Some(culture_settings))]]

\* enum_iterator::all::<Culture>(): the cultures in the order of the enum
CultureOrder == <<"English", "French", "Italian", "Indian">>

\* NumberPatterns::default: the registry [common_pattern, culture_pattern,
\* math_pattern]
NumberPatterns_default ==
  [common_pattern |-> CommonPatterns,
   culture_pattern |-> [i \in 1..Len(CultureOrder) |->
                          CulturePattern_new(CultureOrder[i],
                                             CultureSettings(CultureOrder[i]))],
   math_pattern |-> <<>>]

\* NumberPatterns::add_common_pattern
add_common_pattern(patterns, p) ==
  [patterns EXCEPT !.common_pattern = Append(@, p)]

\* NumberPatterns::add_culture_pattern
add_culture_pattern(patterns, cp) ==
  [patterns EXCEPT !.culture_pattern = Append(@, cp)]

\* NumberPatterns::add_math_pattern
add_math_pattern(patterns, p) ==
  [patterns EXCEPT !.math_pattern = Append(@, p)]

\* find_culture_pattern that returns the last CulturePattern of the culture
find_culture_pattern_last(culture, patterns) ==
  LET hits == {i \in 1..Len(patterns.culture_pattern) :
                 patterns.culture_pattern[i].value = culture}
  IN  IF hits = {}
        THEN None
        ELSE Some(patterns.culture_pattern[CHOOSE i \in hits : \A j \in hits : i >= j])

\* ConvertString::find_culture_pattern: the first CulturePattern of the culture
find_culture_pattern(culture, patterns) ==
  LET hits == {i \in 1..Len(patterns.culture_pattern) :
                 patterns.culture_pattern[i].value = culture}
  IN  IF hits = {}
        THEN None
        ELSE Some(patterns.culture_pattern[CHOOSE i \in hits : \A j \in hits : i <= j])

\* find_pattern that searches the patterns of the culture only
find_pattern_culture_only(string_num, culture, patterns) ==
  LET all_patterns == CulturePatterns(culture)
      hits == {i \in 1..Len(all_patterns) :
                 is_match(all_patterns[i].type_parsing,
                          all_patterns[i].settings, string_num)}
  IN  IF hits = {}
        THEN None
        ELSE Some(all_patterns[CHOOSE i \in hits : \A j \in hits : i <= j])

\* ConvertString::find_pattern: the first pattern of the common patterns
\* followed by the patterns of the culture that matches
find_pattern(string_num, culture, patterns) ==
  LET pattern_culture == find_culture_pattern(culture, patterns)
      all_patterns == patterns.common_pattern
                        \o (IF IsSome(pattern_culture)
                              THEN Unwrap(pattern_culture).patterns
                              ELSE <<>>)
      hits == {i \in 1..Len(all_patterns) :
                 is_match(all_patterns[i].type_parsing,
                          all_patterns[i].settings, string_num)}
  IN  IF hits = {}
        THEN None
        ELSE Some(all_patterns[CHOOSE i \in hits : \A j \in hits : i <= j])

\* ConvertString::get_current_pattern: culture.unwrap_or_default(), with the
\* registry of ConvertString::load_patterns
get_current_pattern(string_num, culture_opt) ==
  find_pattern(string_num,
               IF IsSome(culture_opt) THEN Unwrap(culture_opt) ELSE DefaultCulture,
               NumberPatterns_default)

is_numeric(string_num, culture_opt) ==
  IsSome(get_current_pattern(string_num, culture_opt))

is_integer(string_num, culture_opt) ==
  LET pp == get_current_pattern(string_num, culture_opt)
  IN  IsSome(pp) /\ NumberType(Unwrap(pp).type_parsing) = "WHOLE"

is_float(string_num, culture_opt) ==
  LET pp == get_current_pattern(string_num, culture_opt)
  IN  IsSome(pp) /\ NumberType(Unwrap(pp).type_parsing) = "DECIMAL"

(***************************************************************************)
(* Native parsing: str::parse::<N>() of the target type                    *)
(***************************************************************************)
\* the integer target types of the model: signedness and range
IntegerTypes ==
  [i8  |-> [signed |-> TRUE,  lo |-> -128,            hi |-> 127],
   u8  |-> [signed |-> FALSE, lo |-> 0,               hi |-> 255],
   i16 |-> [signed |-> TRUE,  lo |-> -32768,          hi |-> 32767],
   i32 |-> [signed |-> TRUE,  lo |-> -2147483647 - 1, hi |-> 2147483647]]

IntegerTypeNames == DOMAIN IntegerTypes

FloatTypeNames == {"f32", "f64"}

UnableToConvertStringToNumber == "UnableToConvertStringToNumber"

RECURSIVE AccumulateDigits_saturating(_, _, _, _, _)
\* the digit loop with saturating in place of checked arithmetic: the value
\* stops at the limit of the type
AccumulateDigits_saturating(digits, i, acc, positive, ty) ==
  IF i > Len(digits)
    THEN Some(acc)
    ELSE IF digits[i] \notin AsciiDigits
      THEN None
      ELSE LET d == DigitValue[digits[i]]
           IN  IF positive
                 THEN IF acc > (ty.hi - d) \div 10
                        THEN Some(ty.hi)
                        ELSE AccumulateDigits_saturating(digits, i + 1, acc * 10 + d,
                                                         positive, ty)
                 ELSE IF acc < (ty.lo + d + 9) \div 10
                        THEN Some(ty.lo)
                        ELSE AccumulateDigits_saturating(digits, i + 1, acc * 10 - d,
                                                         positive, ty)

RECURSIVE AccumulateDigits(_, _, _, _, _)
\* the digit loop of the integer parser: checked multiply by 10, then checked
\* add (positive) or subtract (negative) of each digit; None on overflow or
\* on a character that is not an ASCII digit
AccumulateDigits(digits, i, acc, positive, ty) ==
  IF i > Len(digits)
    THEN Some(acc)
    ELSE IF digits[i] \notin AsciiDigits
      THEN None
      ELSE LET d == DigitValue[digits[i]]
           IN  IF positive
                 THEN IF acc > (ty.hi - d) \div 10
                        THEN None
                        ELSE AccumulateDigits(digits, i + 1, acc * 10 + d, positive, ty)
                 ELSE IF acc < (ty.lo + d + 9) \div 10
                        THEN None
                        ELSE AccumulateDigits(digits, i + 1, acc * 10 - d, positive, ty)

\* <integer type>::from_str: optional sign ('-' only for a signed type), then
\* one or more ASCII digits, the value within the range of the type
ParseInteger(s, ty) ==
  IF Len(s) = 0 \/ (Len(s) = 1 /\ s[1] \in Signs)
    THEN Err(UnableToConvertStringToNumber)
    ELSE LET negative == s[1] = "-" /\ ty.signed
             digits == IF s[1] = "+" \/ negative THEN Tail(s) ELSE s
             acc == AccumulateDigits(digits, 1, 0, ~negative, ty)
         IN  IF IsSome(acc)
               THEN Ok(Unwrap(acc))
               ELSE Err(UnableToConvertStringToNumber)

RECURSIVE StripLeadingZeros(_)
StripLeadingZeros(digits) ==
  IF Len(digits) > 0 /\ Head(digits) = "0"
    THEN StripLeadingZeros(Tail(digits))
    ELSE digits

RECURSIVE StripTrailingZeros(_)
StripTrailingZeros(digits) ==
  IF Len(digits) > 0 /\ digits[Len(digits)] = "0"
    THEN StripTrailingZeros(SubSeq(digits, 1, Len(digits) - 1))
    ELSE digits

\* a decimal value: sign, integer digits without leading zeros, fraction
\* digits without trailing zeros; zero has no sign (0.0 == -0.0)
DecimalValue(negative, int_digits, frac_digits) ==
  LET i == StripLeadingZeros(int_digits)
      f == StripTrailingZeros(frac_digits)
  IN  [neg |-> negative /\ ~(i = <<>> /\ f = <<>>), int |-> i, frac |-> f]

\* a float parser that reads up to a second point and ignores the rest
ParseFloat_lenient(s) ==
  LET signed == Len(s) > 0 /\ s[1] \in Signs
      body == IF signed THEN Tail(s) ELSE s
      dots == {i \in 1..Len(body) : body[i] = "."}
      dot == IF dots = {}
               THEN Len(body) + 1
               ELSE CHOOSE i \in dots : \A j \in dots : i <= j
      later == {i \in dots : i > dot}
      stop == IF later = {}
                THEN Len(body) + 1
                ELSE CHOOSE i \in later : \A j \in later : i <= j
      ok == /\ \A i \in 1..Len(body) : body[i] \in AsciiDigits \cup {"."}
            /\ \E i \in 1..Len(body) : body[i] \in AsciiDigits
  IN  IF ok
        THEN Ok(DecimalValue(signed /\ s[1] = "-",
                             SubSeq(body, 1, dot - 1),
                             SubSeq(body, dot + 1, stop - 1)))
        ELSE Err(UnableToConvertStringToNumber)

\* <float type>::from_str on the characters of the model (no exponent, inf
\* or nan can be written with them): Sign? (Digit+ | Digit+ '.' Digit* |
\* Digit* '.' Digit+)
ParseFloat(s) ==
  LET signed == Len(s) > 0 /\ s[1] \in Signs
      body == IF signed THEN Tail(s) ELSE s
      dots == {i \in 1..Len(body) : body[i] = "."}
      ok == /\ \A i \in 1..Len(body) : body[i] \in AsciiDigits \cup {"."}
            /\ Cardinality(dots) <= 1
            /\ \E i \in 1..Len(body) : body[i] \in AsciiDigits
      dot == IF dots = {} THEN Len(body) + 1 ELSE CHOOSE i \in dots : TRUE
  IN  IF ok
        THEN Ok(DecimalValue(signed /\ s[1] = "-",
                             SubSeq(body, 1, dot - 1),
                             SubSeq(body, dot + 1, Len(body))))
        ELSE Err(UnableToConvertStringToNumber)

\* str::parse::<N>().map_err(|_| UnableToConvertStringToNumber)
Parse(s, target) ==
  IF target \in IntegerTypeNames
    THEN ParseInteger(s, IntegerTypes[target])
    ELSE ParseFloat(s)

(***************************************************************************)
(* StringNumber (string_to_number.rs)                                      *)
(***************************************************************************)
\* replace_element with Regex::replace in place of replace_all: only the
\* first character of the class is replaced
replace_element_first(string_number, class, replacement) ==
  LET hits == {i \in 1..Len(string_number) : string_number[i] \in class}
  IN  IF hits = {}
        THEN string_number
        ELSE LET i == CHOOSE k \in hits : \A j \in hits : k <= j
             IN  SubSeq(string_number, 1, i - 1)
                   \o replacement
                   \o SubSeq(string_number, i + 1, Len(string_number))

RECURSIVE replace_element(_, _, _)
\* Regex::replace_all of a one-character class by the replacement string
replace_element(string_number, class, replacement) ==
  IF string_number = <<>>
    THEN <<>>
    ELSE (IF Head(string_number) \in class
            THEN replacement
            ELSE <<Head(string_number)>>)
         \o replace_element(Tail(string_number), class, replacement)

string_decimal_replacement == <<".">>

\* clean with its two steps exchanged: the decimal separator is replaced
\* before the thousand separator is removed
clean_decimal_first(value, settings_opt) ==
  IF IsSome(settings_opt)
    THEN replace_element(
           replace_element(value,
                           to_string_regex(Unwrap(settings_opt).decimal_separator),
                           string_decimal_replacement),
           to_string_regex(Unwrap(settings_opt).thousand_separator),
           <<>>)
    ELSE replace_element(value, Whitespace, <<>>)

\* StringNumber::clean
clean(value, settings_opt) ==
  IF IsSome(settings_opt)
    THEN replace_element(
           replace_element(value,
                           to_string_regex(Unwrap(settings_opt).thousand_separator),
                           <<>>),
           to_string_regex(Unwrap(settings_opt).decimal_separator),
           string_decimal_replacement)
    ELSE replace_element(value, Whitespace, <<>>)

\* NumberConversion for StringNumber: to_number
StringNumber_to_number(value, settings_opt, target) ==
  Parse(clean(value, settings_opt), target)

\* to_number that builds its StringNumber with the settings of the default
\* culture in place of none
to_number_default_settings(s, target) ==
  StringNumber_to_number(s, Some(CultureSettings(DefaultCulture)), target)

\* NumberConversion for &str
to_number(s, target) == StringNumber_to_number(s, None, target)

\* to_number_separators that builds its StringNumber without the settings
to_number_separators_no_settings(s, settings, target) ==
  StringNumber_to_number(s, None, target)

to_number_separators(s, settings, target) ==
  StringNumber_to_number(s, Some(settings), target)

to_number_culture(s, culture, target) ==
  StringNumber_to_number(s, Some(CultureSettings(culture)), target)

\* ConvertString::to_number
ConvertString_to_number(string_num, culture_opt, target) ==
  IF IsSome(culture_opt)
    THEN to_number_culture(string_num, Unwrap(culture_opt), target)
    ELSE to_number(string_num, target)

(***************************************************************************)
(* Number, FormatOption (number.rs)                                        *)
(***************************************************************************)
UnableToConvertNumberToString == "UnableToConvertNumberToString"

NotCaptureFoundWhenConvertNumberToString ==
  "NotCaptureFoundWhenConvertNumberToString"

UnableToDisplayFormat == "UnableToDisplayFormat"

RECURSIVE NatToDigits(_)
\* the decimal digits of a natural number
NatToDigits(n) ==
  IF n < 10
    THEN <<DigitChar[n]>>
    ELSE NatToDigits(n \div 10) \o <<DigitChar[n % 10]>>

RECURSIVE NegToDigits(_)
\* the decimal digits of the magnitude of a negative i32 (i32::MIN included)
NegToDigits(n) ==
  LET last == (10 - (n % 10)) % 10
      rest == (n + last) \div 10
  IN  IF rest = 0
        THEN <<DigitChar[last]>>
        ELSE NegToDigits(rest) \o <<DigitChar[last]>>

\* Display of an i32
i32_to_string(n) ==
  IF n < 0 THEN <<"-">> \o NegToDigits(n) ELSE NatToDigits(n)

\* u64::MAX
U64Max ==
  <<"1", "8", "4", "4", "6", "7", "4", "4", "0", "7",
    "3", "7", "0", "9", "5", "5", "1", "6", "1", "5">>

RECURSIVE DigitsLessEq(_, _)
\* a <= b for two digit strings of the same length
DigitsLessEq(a, b) ==
  IF a = <<>>
    THEN TRUE
    ELSE IF DigitValue[Head(a)] # DigitValue[Head(b)]
      THEN DigitValue[Head(a)] < DigitValue[Head(b)]
      ELSE DigitsLessEq(Tail(a), Tail(b))

\* a canonical digit string, "0" for zero
Canonical(digits) ==
  LET d == StripLeadingZeros(digits) IN IF d = <<>> THEN <<"0">> ELSE d

\* to_number::<u64>() of a string of digits with an optional '+': the value
\* as a canonical digit string, None when it is not a u64
parse_u64(s) ==
  LET digits == IF Len(s) > 1 /\ s[1] = "+" THEN Tail(s) ELSE s
      c == Canonical(digits)
  IN  IF Len(digits) = 0 \/ \E i \in 1..Len(digits) : digits[i] \notin AsciiDigits
        THEN None
        ELSE IF Len(c) > Len(U64Max) \/ (Len(c) = Len(U64Max) /\ ~DigitsLessEq(c, U64Max))
          THEN None
          ELSE Some(c)

RECURSIVE AddToDigits(_, _)
\* digits + n for a small n, on a canonical digit string (a u64; the sum
\* stays below u64::MAX for every number that has a fraction)
AddToDigits(digits, n) ==
  IF n = 0
    THEN digits
    ELSE IF digits = <<>>
      THEN NatToDigits(n)
      ELSE LET sum == DigitValue[digits[Len(digits)]] + n
               init == SubSeq(digits, 1, Len(digits) - 1)
           IN  AddToDigits(init, sum \div 10) \o <<DigitChar[sum % 10]>>

RECURSIVE Zeros(_)
\* "0".repeat(n)
Zeros(n) == IF n <= 0 THEN <<>> ELSE <<"0">> \o Zeros(n - 1)

RECURSIVE Pow10(_)
Pow10(k) == IF k = 0 THEN 1 ELSE 10 * Pow10(k - 1)

\* 10i32.pow(k): 10^k up to k = 9; 10^10 overflows the i32, which panics in a
\* build with overflow checks and wraps to 1410065408 in one without
pow_i32(k, overflow_checks) ==
  IF k <= 9
    THEN Some(Pow10(k))
    ELSE IF overflow_checks THEN None ELSE Some(1410065408)

\* (d as f64 / e as f64).round(): round half away from zero; the quotient of
\* an i32 by a power of ten is exact at the halves in f64
round_div(d, e) ==
  (d \div e) + (IF (d % e) >= e - (d % e) THEN 1 ELSE 0)

RECURSIVE GreedyDigits(_, _)
\* [0-9]* matched greedily after the first p characters: the end of the match
GreedyDigits(str, p) ==
  IF p < Len(str) /\ str[p + 1] \in AsciiDigits
    THEN GreedyDigits(str, p + 1)
    ELSE p

\* Number::regex_read_number on the Display string of the number:
\* the leftmost match of ([\-\+]?)([0-9]+)([\.]?)([0-9]*)
regex_read_number(str) ==
  LET starts == {i \in 1..Len(str) :
                   \/ str[i] \in AsciiDigits
                   \/ str[i] \in Signs /\ i < Len(str) /\ str[i + 1] \in AsciiDigits}
  IN  IF starts = {}
        THEN Err(NotCaptureFoundWhenConvertNumberToString)
        ELSE LET i == CHOOSE k \in starts : \A j \in starts : k <= j
                 a == IF str[i] \in Signs THEN i + 1 ELSE i
                 b == GreedyDigits(str, a)
                 c == IF b < Len(str) /\ str[b + 1] = "." THEN b + 1 ELSE b
                 d == GreedyDigits(str, c)
             IN  Ok([sign |-> IF a > i THEN <<str[i]>> ELSE <<"+">>,
                     whole |-> SubSeq(str, a, b),
                     decimal |-> IF d > c THEN Some(SubSeq(str, c + 1, d)) ELSE None])

RECURSIVE separate_by_policy(_, _, _)
\* thousands::Separable: the separator between blocks of digits counted from
\* the right, the last block size repeating
separate_by_policy(digits, separator, blocks) ==
  IF Len(digits) <= Head(blocks)
    THEN digits
    ELSE separate_by_policy(SubSeq(digits, 1, Len(digits) - Head(blocks)),
                            separator,
                            IF Len(blocks) > 1 THEN Tail(blocks) ELSE blocks)
         \o <<separator>>
         \o SubSeq(digits, Len(digits) - Head(blocks) + 1, Len(digits))

\* the block sizes the formatter groups with for a culture
GroupingPolicy(culture) ==
  ThousandGroupingBlocks(CultureSettings(culture).thousand_grouping)

\* Number::apply_thousand_separator: num.separate_with_<separator of culture>()
apply_thousand_separator(num, culture) ==
  LET str == i32_to_string(num)
      sep == SeparatorChar(CultureSettings(culture).thousand_separator)
  IN  IF Head(str) = "-"
        THEN <<"-">> \o separate_by_policy(Tail(str), sep, GroupingPolicy(culture))
        ELSE separate_by_policy(str, sep, GroupingPolicy(culture))

\* the digits of the decimal part as they are, neither padded nor rounded
apply_decimal_format_unrounded(decimal_part, options, overflow_checks) ==
  IF options.minimum_fraction_digit = 0
    THEN Ok(None)
    ELSE Ok(Some([text |-> NatToDigits(decimal_part), round_up |-> FALSE]))

\* Number::apply_decimal_format: None, or [text, round_up]; Panic when a
\* power of ten overflows in a build with overflow checks
apply_decimal_format(decimal_part, options, overflow_checks) ==
  LET decimal_string == NatToDigits(decimal_part)
      decimal_len == Len(decimal_string)
  IN  IF options.minimum_fraction_digit = 0
        THEN Ok(None)
        ELSE IF decimal_len < options.minimum_fraction_digit
          THEN Ok(Some([text |-> decimal_string
                                   \o Zeros(options.minimum_fraction_digit - decimal_len),
                        round_up |-> FALSE]))
          ELSE IF decimal_len > options.maximum_fraction_digit
            THEN LET exp == pow_i32(decimal_len - options.maximum_fraction_digit,
                                     overflow_checks)
                 IN  IF ~IsSome(exp)
                       THEN Panic
                       ELSE IF round_div(decimal_part, Unwrap(exp))
                                 = Pow10(options.maximum_fraction_digit)
                         THEN Ok(Some([text |-> Zeros(options.maximum_fraction_digit),
                                       round_up |-> TRUE]))
                         ELSE Ok(Some([text |-> NatToDigits(
                                                  round_div(decimal_part, Unwrap(exp))),
                                       round_up |-> FALSE]))
            ELSE Ok(Some([text |-> decimal_string, round_up |-> FALSE]))

\* the closure calc_to_string of to_format_options: the i32 of sign and whole
\* part (unwrap), with the thousand separators of the culture
calc_to_string(sign_string, whole_string, culture) ==
  LET n == ConvertString_to_number(sign_string \o whole_string, None, "i32")
  IN  IF n.kind = "Ok"
        THEN Ok(apply_thousand_separator(n.val, culture))
        ELSE Panic

\* Number::to_format_options on the Display string of the number
to_format_options(str, culture, format, overflow_checks) ==
  LET split == regex_read_number(str)
  IN  IF split.kind # "Ok"
        THEN split
        ELSE
    LET sign_string == split.val.sign
        whole_string == split.val.whole
        decimal_string == IF IsSome(split.val.decimal)
                            THEN Unwrap(split.val.decimal)
                            ELSE <<"0">>
        decimal_part == ConvertString_to_number(decimal_string, None, "i32")
    IN  IF decimal_part.kind # "Ok"
          THEN Panic
          ELSE
    LET decimal_opt == apply_decimal_format(decimal_part.val, format, overflow_checks)
        whole_number == parse_u64(clean(whole_string, None))
    IN  IF decimal_opt.kind # "Ok"
          THEN Panic
          ELSE IF IsSome(decimal_opt.val)
            THEN LET number_string ==
                       IF Unwrap(decimal_opt.val).round_up
                         THEN IF IsSome(whole_number)
                                THEN calc_to_string(sign_string,
                                       AddToDigits(Unwrap(whole_number), 1), culture)
                                ELSE Panic
                         ELSE calc_to_string(sign_string, whole_string, culture)
                 IN  IF number_string.kind # "Ok"
                       THEN Panic
                       ELSE Ok(number_string.val
                               \o <<SeparatorChar(CultureSettings(culture).decimal_separator)>>
                               \o Unwrap(decimal_opt.val).text)
            ELSE IF ~IsSome(whole_number)
              THEN Panic
              ELSE LET exp == pow_i32(Len(NatToDigits(decimal_part.val)), overflow_checks)
                   IN  IF ~IsSome(exp)
                         THEN Panic
                         ELSE calc_to_string(sign_string,
                                AddToDigits(Unwrap(whole_number),
                                            round_div(decimal_part.val, Unwrap(exp))),
                                culture)

\* Number::set_nb_digits: the digit of the specifier "N<d>"
set_nb_digits(digit) ==
  IF Len(digit) # 2
    THEN Err(UnableToDisplayFormat)
    ELSE IF digit[1] # "N"
      THEN Err(UnableToDisplayFormat)
      ELSE to_number(<<digit[2]>>, "u8")

\* FormatOption::new
FormatOption_new(minimum, maximum) ==
  [minimum_fraction_digit |-> minimum, maximum_fraction_digit |-> maximum]

\* ToFormat::to_format
to_format(str, digit, culture, overflow_checks) ==
  LET nb_digit == set_nb_digits(digit)
  IN  IF nb_digit.kind # "Ok"
        THEN nb_digit
        ELSE to_format_options(str, culture,
                               FormatOption_new(nb_digit.val, nb_digit.val),
                               overflow_checks)

(***************************************************************************)
(* Inputs of the operations                                                *)
(***************************************************************************)
\* every string of at most n characters of the set chars
Strings(chars, n) == UNION {[1..k -> chars] : k \in 0..n}

\* strings of the tests of string_to_number.rs and tests/global.rs, and the
\* limits of the integer types
ParseExamples ==
  {<<"-", "1", "8", ".", "8", "8", "8", ",", "8", "8">>,
   <<"1", "0", ",", "0", "0", "0">>,
   <<"1", "0", ",", "0", "0", ",", "0", "0", "0">>,
   <<"1", " ", "0", "0", "0">>,
   <<"1", "0", ",", "0", "0", ",", "0", "0">>,
   <<"1", "0", ",", "0", "0", ",", "0", "0", ",", "0", "0">>,
   <<"1", "0", ",", "0", "0", "0", ",", "0", "0", "0">>,
   <<"2", ".", ".", "5", "0", "0">>,
   <<"1", "0", "*", "5">>, <<"1", "'", "0", "0", "0">>,
   <<"1", "0", "0", "0">>, <<"-", "1", "0", "0", "0", "0">>, <<"1", "2", "0">>,
   <<"1", "2", "7">>, <<"1", "2", "8">>, <<"-", "1", "2", "8">>, <<"-", "1", "2", "9">>,
   <<"2", "5", "5">>, <<"2", "5", "6">>, <<"+", "1", "2", "7">>, <<"0", "0", "1", "2", "8">>,
   <<"-", "0">>, <<"+", "0">>, <<"-", "0", "0", "7">>,
   <<"3", "2", "7", "6", "7">>, <<"3", "2", "7", "6", "8">>,
   <<"-", "3", "2", "7", "6", "8">>, <<"-", "3", "2", "7", "6", "9">>,
   <<"2", "1", "4", "7", "4", "8", "3", "6", "4", "7">>,
   <<"2", "1", "4", "7", "4", "8", "3", "6", "4", "8">>,
   <<"-", "2", "1", "4", "7", "4", "8", "3", "6", "4", "8">>,
   <<"-", "2", "1", "4", "7", "4", "8", "3", "6", "4", "9">>,
   <<"9", "9", "9", "9", "9", "9", "9", "9", "9", "9", "9">>}

ParseChars == {"1", ",", ".", " ", "\t", "-"}

ParseTexts == Strings(ParseChars, MaxTextLen) \cup ParseExamples

\* strings of the tests of pattern.rs
ShapeExamples ==
  {<<"1", ".", ".", "0">>, <<"1", ".", ",", "0">>, <<",", "1", ".", "0">>,
   <<"+", "-", "0", ".", "2">>, <<"2", "0", " ", "0", "0">>,
   <<"-", "0", ",", "2", "2", "4", "5", ",", "4", "5">>,
   <<"1", "0", ",", "0", "0", "0">>, <<"+", "1", " ", "0", "0", "0">>,
   <<"2", " ", "5", "0", "0", " ", "5", "6", "3">>,
   <<"1", "2", "3", "4", ",", "5", "6", "7">>,
   <<"1", ",", "0", "0", "0", ".">>, <<"1", "\t", "0", "0", "0">>,
   <<"1", "0", ",", "0", "0", ",", "0", "0", "0">>, <<",", "0", "0", "0">>,
   <<ArabicThree>>, <<"-", "1", ArabicThree>>, <<"1", ".", "0", "0", "0", ",", "4", "5">>}

ShapeChars == {"1", ",", ".", " ", "-"}

ShapeTexts == Strings(ShapeChars, MaxShapeLen) \cup ShapeExamples

\* the separators the settings of the model are built from
SeparatorInputs == {SPACE, DOT, COMMA, APOSTROPHE, CUSTOM(","), CUSTOM("1")}

Groupings == {"ThreeBlock", "TwoBlock"}

\* the patterns added to a registry: common, culture and math patterns
AddedCommonPatterns ==
  {ParsingPattern_build("DecimalSimple", Some(CultureSettings("English"))),
   ParsingPattern_build("WholeThousandSeparator", Some(CultureSettings("French")))}

AddedCulturePatterns ==
  {CulturePattern_new("French", CultureSettings("English")),
   CulturePattern_new("English", CultureSettings("Italian"))}

AddedMathPatterns == {ParsingPattern_build("WholeSimple", None)}

\* the strings searched in a registry
RegistryTexts ==
  ShapeExamples \cup {<<"1", "0">>, <<"1", ".", "5">>, <<"1", ",", "5">>}

\* the separators NumberCultureSettings::new is called with
ConstructionSeparators == SeparatorInputs \cup {CUSTOM("|"), CUSTOM("'")}

\* the string slices NumberCultureSettings::from is called with
ConstructionStrings ==
  {<<",">>, <<".">>, <<" ">>, <<"'">>, <<"|">>, <<>>, <<",", ",">>,
   <<ArabicThree>>}

\* the settings values NumberCultureSettings::new and with_grouping yield
\* from a set of separators
SettingsOf(separators, groupings) ==
  {with_grouping(r.val, g) :
     r \in {x \in {NumberCultureSettings_new(th, de) :
                     th \in separators, de \in separators} : x.kind = "Ok"},
     g \in groupings}

\* settings of the conversions (the grouping plays no part in clean)
SettingsInputs ==
  SettingsOf(SeparatorInputs, {"ThreeBlock"}) \cup {CultureSettings("Indian")}

\* settings of the patterns: the fixed separators with both groupings, and
\* custom separators that are a digit or the character of a fixed separator
ShapeSettingsInputs ==
  SettingsOf({SPACE, DOT, COMMA}, Groupings)
    \cup SettingsOf({COMMA, CUSTOM("1")}, {"ThreeBlock"})
    \cup SettingsOf({COMMA, CUSTOM(",")}, {"ThreeBlock"})

TargetInputs == IntegerTypeNames \cup {"f64"}

\* the target types of the conversions with settings
SettingsTargetInputs == {"u8", "i32", "f64"}

\* a number to format: its sign, the digits of its integer part and of its
\* fraction as its Display writes them, or NaN / inf
WholeInputs ==
  {<<"0">>, <<"9">>, <<"9", "9", "9">>, <<"1", "0", "0", "0">>,
   <<"1", "2", "3", "4", "5", "6", "7">>,
   <<"2", "1", "4", "7", "4", "8", "3", "6", "4", "7">>,
   <<"1", "0", "0", "0", "0", "0", "0", "0", "0", "0", "0">>}

FracDigits == {"0", "5", "9"}

FracInputs ==
  {f \in Strings(FracDigits, MaxFracLen) : f = <<>> \/ f[Len(f)] # "0"}
    \cup {<<"9", "9", "9", "8", "8", "8", "8">>, <<"6", "6", "6", "6", "6">>,
          <<"0", "4", "4", "9">>, <<"4">>, <<"4", "8">>,
          <<"9", "9", "9", "9", "9", "9", "9", "9", "9", "9">>,
          <<"1", "2", "3", "4", "5", "6", "7", "8", "9", "1">>}

NumberInputs ==
  [special : {""}, neg : BOOLEAN, whole : WholeInputs, frac : FracInputs]
    \cup [special : {"NaN", "inf"}, neg : {FALSE}, whole : {<<"0">>}, frac : {<<>>}]

\* Display of the number (to_string)
Display(n) ==
  CASE n.special = "NaN" -> <<"N", "a", "N">>
    [] n.special = "inf" -> <<"i", "n", "f">>
    [] OTHER -> (IF n.neg THEN <<"-">> ELSE <<>>)
                  \o n.whole
                  \o (IF n.frac = <<>> THEN <<>> ELSE <<".">> \o n.frac)

SpecifierInputs ==
  {<<"N", DigitChar[d]>> : d \in 0..MaxFractionDigit}
    \cup {<<"N", "1", "0">>, <<"n", "2">>, <<"N", "x">>, <<"N", " ">>}

(***************************************************************************)
(* The state: the call made and what it returned                           *)
(***************************************************************************)
VARIABLES
  pc,               \* "idle", then the name of the last call
  number,           \* the number formatted
  specifier,        \* the "N<d>" of to_format, <<>> for to_format_options
  format,           \* the FormatOption of to_format_options
  overflow_checks,  \* whether the build panics on arithmetic overflow
  culture,          \* Option<Culture> of the call
  text,             \* the string converted or classified
  settings,         \* Option<NumberCultureSettings> of the StringNumber
  target,           \* the numeric type N of to_number::<N>
  formatted,        \* result of to_format / to_format_options
  cleaned,          \* clean()
  recleaned,        \* clean() of the cleaned string
  converted,        \* result of to_number
  pattern,          \* Option<ParsingPattern> of get_current_pattern
  shapes,           \* the types of parsing whose regex matches the text
  requested,        \* the construction of settings asked for: [op, args]
  built,            \* what the construction yielded: Ok(settings) or Panic
  all_patterns      \* the registry of patterns (NumberPatterns)

vars ==
  <<pc, number, specifier, format, overflow_checks, culture, text, settings,
    target, formatted, cleaned, recleaned, converted, pattern, shapes,
    requested, built, all_patterns>>

NoResult == [kind |-> "NoResult", val |-> "none"]

NoRequest == [op |-> "none", args |-> <<>>]

NoNumber == [special |-> "none", neg |-> FALSE, whole |-> <<>>, frac |-> <<>>]

Init ==
  /\ pc = "idle"
  /\ number = NoNumber
  /\ specifier = <<>>
  /\ format = FormatOption_new(2, 2)
  /\ overflow_checks = FALSE
  /\ culture = None
  /\ text = <<>>
  /\ settings = None
  /\ target = "i32"
  /\ formatted = NoResult
  /\ cleaned = <<>>
  /\ recleaned = <<>>
  /\ converted = NoResult
  /\ pattern = None
  /\ shapes = {}
  /\ requested = NoRequest
  /\ built = NoResult
  /\ all_patterns = NumberPatterns_default

(***************************************************************************)
(* Formatting                                                              *)
(***************************************************************************)
\* n.to_format(specifier, culture)
ToFormat ==
  /\ pc = "idle"
  /\ \E n \in NumberInputs, sp \in SpecifierInputs, c \in Cultures, oc \in BOOLEAN :
       /\ number' = n
       /\ specifier' = sp
       /\ culture' = Some(c)
       /\ overflow_checks' = oc
       /\ format' = IF set_nb_digits(sp).kind = "Ok"
                      THEN FormatOption_new(set_nb_digits(sp).val, set_nb_digits(sp).val)
                      ELSE format
       /\ formatted' = to_format(Display(n), sp, c, oc)
  /\ pc' = "to_format"
  /\ UNCHANGED <<all_patterns, requested, built,
                 text, settings, target, cleaned, recleaned, converted, pattern, shapes>>

\* Number::new(n).to_format_options(&culture, FormatOption::new(min, max))
ToFormatOptions ==
  /\ pc = "idle"
  /\ \E n \in NumberInputs, c \in Cultures, oc \in BOOLEAN,
        mn \in 0..MaxFractionDigit, mx \in 0..MaxFractionDigit :
       /\ number' = n
       /\ culture' = Some(c)
       /\ overflow_checks' = oc
       /\ format' = FormatOption_new(mn, mx)
       /\ formatted' = to_format_options(Display(n), c, FormatOption_new(mn, mx), oc)
  /\ pc' = "to_format_options"
  /\ UNCHANGED <<all_patterns, requested, built,
                 specifier, text, settings, target, cleaned, recleaned, converted,
                 pattern, shapes>>

\* formatted_string.to_number_culture::<f64>(culture) of the string returned
ParseFormatted ==
  /\ pc \in {"to_format", "to_format_options"}
  /\ formatted.kind = "Ok"
  /\ text' = formatted.val
  /\ settings' = Some(CultureSettings(Unwrap(culture)))
  /\ target' = "f64"
  /\ converted' = to_number_culture(formatted.val, Unwrap(culture), "f64")
  /\ pc' = "parsed_back"
  /\ UNCHANGED <<all_patterns, requested, built,
                 number, specifier, format, overflow_checks, culture, formatted,
                 cleaned, recleaned, pattern, shapes>>

(***************************************************************************)
(* Conversion of strings                                                   *)
(***************************************************************************)
\* text.to_number::<N>()
ToNumber ==
  /\ pc = "idle"
  /\ \E s \in ParseTexts, ty \in TargetInputs :
       /\ text' = s
       /\ target' = ty
       /\ settings' = None
       /\ converted' = to_number(s, ty)
  /\ pc' = "to_number"
  /\ UNCHANGED <<all_patterns, requested, built,
                 number, specifier, format, overflow_checks, culture, formatted,
                 cleaned, recleaned, pattern, shapes>>

\* text.to_number_separators::<N>(settings)
ToNumberSeparators ==
  /\ pc = "idle"
  /\ \E s \in ParseTexts, ty \in SettingsTargetInputs, st \in SettingsInputs :
       /\ text' = s
       /\ target' = ty
       /\ settings' = Some(st)
       /\ converted' = to_number_separators(s, st, ty)
  /\ pc' = "to_number_separators"
  /\ UNCHANGED <<all_patterns, requested, built,
                 number, specifier, format, overflow_checks, culture, formatted,
                 cleaned, recleaned, pattern, shapes>>

\* text.to_number_culture::<N>(culture)
ToNumberCulture ==
  /\ pc = "idle"
  /\ \E s \in ParseTexts, ty \in TargetInputs, c \in Cultures :
       /\ text' = s
       /\ target' = ty
       /\ culture' = Some(c)
       /\ settings' = Some(CultureSettings(c))
       /\ converted' = to_number_culture(s, c, ty)
  /\ pc' = "to_number_culture"
  /\ UNCHANGED <<all_patterns, requested, built,
                 number, specifier, format, overflow_checks, formatted,
                 cleaned, recleaned, pattern, shapes>>

\* StringNumber::new / new_with_settings, then clean()
Clean ==
  /\ pc = "idle"
  /\ \E s \in ParseTexts, st \in {None} \cup {Some(x) : x \in SettingsInputs} :
       /\ text' = s
       /\ settings' = st
       /\ cleaned' = clean(s, st)
  /\ pc' = "clean"
  /\ UNCHANGED <<all_patterns, requested, built,
                 number, specifier, format, overflow_checks, culture, target,
                 formatted, recleaned, converted, pattern, shapes>>

\* clean() of a StringNumber of the cleaned string, with the same settings
CleanAgain ==
  /\ pc = "clean"
  /\ recleaned' = clean(cleaned, settings)
  /\ pc' = "clean_again"
  /\ UNCHANGED <<all_patterns, requested, built,
                 number, specifier, format, overflow_checks, culture, text,
                 settings, target, formatted, cleaned, converted, pattern, shapes>>

(***************************************************************************)
(* Classification                                                          *)
(***************************************************************************)
\* ConvertString::new(text, culture), then get_current_pattern()
Classify ==
  /\ pc = "idle"
  /\ \E s \in ShapeTexts, c \in {None} \cup {Some(x) : x \in Cultures} :
       /\ text' = s
       /\ culture' = c
       /\ pattern' = get_current_pattern(s, c)
  /\ pc' = "classified"
  /\ UNCHANGED <<all_patterns, requested, built,
                 number, specifier, format, overflow_checks, settings, target,
                 formatted, cleaned, recleaned, converted, shapes>>

\* to_number::<N>() of the ConvertString that was classified
ConvertClassified ==
  /\ pc = "classified"
  /\ \E ty \in {"i32", "f32"} :
       /\ target' = ty
       /\ converted' = ConvertString_to_number(text, culture, ty)
  /\ pc' = "converted"
  /\ UNCHANGED <<all_patterns, requested, built,
                 number, specifier, format, overflow_checks, culture, text,
                 settings, formatted, cleaned, recleaned, pattern, shapes>>

\* RegexPattern::new(type, Some(settings)) for the five types, is_match(text)
MatchShapes ==
  /\ pc = "idle"
  /\ \E s \in ShapeTexts, st \in ShapeSettingsInputs :
       /\ text' = s
       /\ settings' = Some(st)
       /\ shapes' = {tp \in TypeParsings : is_match(tp, Some(st), s)}
  /\ pc' = "matched"
  /\ UNCHANGED <<all_patterns, requested, built,
                 number, specifier, format, overflow_checks, culture, target,
                 formatted, cleaned, recleaned, converted, pattern>>

(***************************************************************************)
(* Construction of settings                                                *)
(***************************************************************************)
\* the settings a construction starts from
ConstructedSettings ==
  /\ pc \in {"new", "from_culture", "from_strs", "with_grouping"}
  /\ built.kind = "Ok"

\* NumberCultureSettings::new(thousand, decimal)
NewSettings ==
  /\ pc = "idle"
  /\ \E th \in ConstructionSeparators, de \in ConstructionSeparators :
       /\ requested' = [op |-> "new", args |-> <<th, de>>]
       /\ built' = NumberCultureSettings_new(th, de)
  /\ pc' = "new"
  /\ UNCHANGED <<all_patterns,
                 number, specifier, format, overflow_checks, culture, text,
                 settings, target, formatted, cleaned, recleaned, converted,
                 pattern, shapes>>

\* NumberCultureSettings::from(culture)
FromCulture ==
  /\ pc = "idle"
  /\ \E c \in Cultures :
       /\ requested' = [op |-> "from_culture", args |-> <<c>>]
       /\ built' = Ok(CultureSettings(c))
  /\ pc' = "from_culture"
  /\ UNCHANGED <<all_patterns,
                 number, specifier, format, overflow_checks, culture, text,
                 settings, target, formatted, cleaned, recleaned, converted,
                 pattern, shapes>>

\* NumberCultureSettings::from((thousand, decimal)) of two string slices
FromStrs ==
  /\ pc = "idle"
  /\ \E s0 \in ConstructionStrings, s1 \in ConstructionStrings :
       /\ requested' = [op |-> "from_strs", args |-> <<s0, s1>>]
       /\ built' = NumberCultureSettings_from_strs(s0, s1)
  /\ pc' = "from_strs"
  /\ UNCHANGED <<all_patterns,
                 number, specifier, format, overflow_checks, culture, text,
                 settings, target, formatted, cleaned, recleaned, converted,
                 pattern, shapes>>

\* settings.with_grouping(grouping) of settings constructed before
WithGrouping ==
  /\ ConstructedSettings
  /\ \E g \in Groupings :
       /\ requested' = [op |-> "with_grouping", args |-> <<built.val, g>>]
       /\ built' = Ok(with_grouping(built.val, g))
  /\ pc' = "with_grouping"
  /\ UNCHANGED <<all_patterns,
                 number, specifier, format, overflow_checks, culture, text,
                 settings, target, formatted, cleaned, recleaned, converted,
                 pattern, shapes>>

(***************************************************************************)
(* The registry of patterns                                                *)
(***************************************************************************)
\* how many patterns were added to the registry since NumberPatterns::default
Added ==
  Len(all_patterns.common_pattern) + Len(all_patterns.culture_pattern)
    + Len(all_patterns.math_pattern)
    - Len(NumberPatterns_default.common_pattern)
    - Len(NumberPatterns_default.culture_pattern)

\* the registry can be added to
RegistryOpen == pc \in {"idle", "registry"} /\ Added < MaxAdded

\* patterns.add_common_pattern(p)
AddCommonPattern ==
  /\ RegistryOpen
  /\ \E p \in AddedCommonPatterns :
       all_patterns' = add_common_pattern(all_patterns, p)
  /\ pc' = "registry"
  /\ UNCHANGED <<number, specifier, format, overflow_checks, culture, text,
                 settings, target, formatted, cleaned, recleaned, converted,
                 pattern, shapes, requested, built>>

\* patterns.add_culture_pattern(cp)
AddCulturePattern ==
  /\ RegistryOpen
  /\ \E cp \in AddedCulturePatterns :
       all_patterns' = add_culture_pattern(all_patterns, cp)
  /\ pc' = "registry"
  /\ UNCHANGED <<number, specifier, format, overflow_checks, culture, text,
                 settings, target, formatted, cleaned, recleaned, converted,
                 pattern, shapes, requested, built>>

\* patterns.add_math_pattern(p)
AddMathPattern ==
  /\ RegistryOpen
  /\ \E p \in AddedMathPatterns :
       all_patterns' = add_math_pattern(all_patterns, p)
  /\ pc' = "registry"
  /\ UNCHANGED <<number, specifier, format, overflow_checks, culture, text,
                 settings, target, formatted, cleaned, recleaned, converted,
                 pattern, shapes, requested, built>>

\* ConvertString::find_pattern(text, &culture, &patterns)
FindPattern ==
  /\ pc \in {"idle", "registry"}
  /\ \E s \in RegistryTexts, c \in Cultures :
       /\ text' = s
       /\ culture' = Some(c)
       /\ pattern' = find_pattern(s, c, all_patterns)
  /\ pc' = "found"
  /\ UNCHANGED <<number, specifier, format, overflow_checks, settings, target,
                 formatted, cleaned, recleaned, converted, shapes, requested,
                 built, all_patterns>>

NextFormat == ToFormat \/ ToFormatOptions \/ ParseFormatted

NextConversion ==
  ToNumber \/ ToNumberSeparators \/ ToNumberCulture \/ Clean \/ CleanAgain

NextClassification == Classify \/ ConvertClassified \/ MatchShapes

NextSettings == NewSettings \/ FromCulture \/ FromStrs \/ WithGrouping

NextRegistry ==
  AddCommonPattern \/ AddCulturePattern \/ AddMathPattern \/ FindPattern

Next ==
  NextFormat \/ NextConversion \/ NextClassification \/ NextSettings
    \/ NextRegistry

Spec == Init /\ [][Next]_vars

SpecFormat == Init /\ [][NextFormat]_vars

SpecConversion == Init /\ [][NextConversion]_vars

SpecClassification == Init /\ [][NextClassification]_vars

SpecSettings == Init /\ [][NextSettings]_vars

SpecRegistry == Init /\ [][NextRegistry]_vars

(***************************************************************************)
(* Properties of the formatter                                             *)
(***************************************************************************)
RECURSIVE Successor(_)
\* the digit string of the value of a digit string plus one
Successor(digits) ==
  IF digits = <<>>
    THEN <<"1">>
    ELSE IF digits[Len(digits)] = "9"
      THEN Successor(SubSeq(digits, 1, Len(digits) - 1)) \o <<"0">>
      ELSE SubSeq(digits, 1, Len(digits) - 1)
             \o <<DigitChar[DigitValue[digits[Len(digits)]] + 1]>>

\* the fraction is cut after k digits and the digit after the cut is 5 or more
RoundsUp(n, k) == Len(n.frac) > k /\ DigitValue[n.frac[k + 1]] >= 5

\* the number rounded to k fraction digits, half away from zero
RoundedValue(n, k) ==
  LET kept == IF Len(n.frac) > k THEN SubSeq(n.frac, 1, k) ELSE n.frac
      scaled == n.whole \o kept
      rounded == IF RoundsUp(n, k) THEN Successor(scaled) ELSE scaled
      cut == Len(rounded) - Len(kept)
  IN  DecimalValue(n.neg, SubSeq(rounded, 1, cut),
                   SubSeq(rounded, cut + 1, Len(rounded)))

\* the call was n.to_format("N2", culture) of a finite number
FormattedN2 == specifier = <<"N", "2">> /\ number.special = ""

\* C1: parsing the string produced by to_format(n, "N2", C) with
\* to_number_culture::<f64>(_, C) succeeds and returns n rounded to 2
\* fraction digits, for every culture and every number
C1_RoundTrip ==
  (pc = "parsed_back" /\ FormattedN2)
    => converted = Ok(RoundedValue(number, 2))

\* the separator follows a digit that has r digits to its right
GroupBoundary(r, grouping) ==
  /\ r > 0
  /\ IF grouping = "ThreeBlock"
       THEN r % 3 = 0
       ELSE r = 3 \/ (r > 3 /\ (r - 3) % 2 = 0)

RECURSIVE GroupedFrom(_, _, _, _)
\* the digits from position i on, a separator after each group boundary
GroupedFrom(digits, i, sep, grouping) ==
  IF i > Len(digits)
    THEN <<>>
    ELSE <<digits[i]>>
           \o (IF GroupBoundary(Len(digits) - i, grouping) THEN <<sep>> ELSE <<>>)
           \o GroupedFrom(digits, i + 1, sep, grouping)

\* the grouped integer part of a culture for a digit string
GroupedForm(digits, c) ==
  GroupedFrom(digits, 1, SeparatorChar(CultureSettings(c).thousand_separator),
              CultureSettings(c).thousand_grouping)

\* rounding the fraction to k digits produces 10^k
CarryCase(n, k) ==
  /\ n.special = ""
  /\ RoundsUp(n, k)
  /\ \A i \in 1..k : n.frac[i] = "9"

\* the text of the incremented integer part, grouped, then a fraction of
\* exactly k zeros
CarriedText(n, k, c) ==
  (IF n.neg THEN <<"-">> ELSE <<>>)
    \o GroupedForm(Successor(n.whole), c)
    \o (IF k > 0
          THEN <<SeparatorChar(CultureSettings(c).decimal_separator)>> \o Zeros(k)
          ELSE <<>>)

\* a formatting call was made with minimum = maximum fraction digits
FormattedFixed ==
  /\ pc \in {"to_format", "to_format_options"}
  /\ pc = "to_format" => set_nb_digits(specifier).kind = "Ok"
  /\ format.minimum_fraction_digit = format.maximum_fraction_digit

\* C2: whenever rounding the fraction to maximum_fraction_digit digits
\* produces 10^maximum, the formatter emits the integer part plus one,
\* regrouped, and a fraction of exactly maximum zeros
C2_RoundingCarry ==
  (FormattedFixed /\ CarryCase(number, format.maximum_fraction_digit))
    => formatted = Ok(CarriedText(number, format.maximum_fraction_digit,
                                  Unwrap(culture)))

\* C2 where the formatter returns: the carry is rendered as the claim says
C2_RoundingCarryWhenReturned ==
  (FormattedFixed /\ CarryCase(number, format.maximum_fraction_digit)
     /\ formatted.kind # "Panic")
    => formatted = Ok(CarriedText(number, format.maximum_fraction_digit,
                                  Unwrap(culture)))

\* the number is a value of a native integer type
IsIntegerValue(n) ==
  n.special = "" /\ n.frac = <<>> /\ ~(n.neg /\ n.whole = <<"0">>)

\* a formatting call with a valid specifier or a FormatOption was made
FormatCalled ==
  /\ pc \in {"to_format", "to_format_options"}
  /\ pc = "to_format" => set_nb_digits(specifier).kind = "Ok"

RECURSIVE UpToChar(_, _)
\* the text before the first occurrence of a character
UpToChar(s, ch) ==
  IF s = <<>> \/ Head(s) = ch THEN <<>> ELSE <<Head(s)>> \o UpToChar(Tail(s), ch)

\* the sign and the grouped integer part of the text returned
IntegerText(out, c) ==
  UpToChar(out, SeparatorChar(CultureSettings(c).decimal_separator))

\* the sign, then the digits with a separator at each group boundary
GroupedInteger(n, c) ==
  (IF n.neg THEN <<"-">> ELSE <<>>) \o GroupedForm(n.whole, c)

\* C5: for every integer value the formatter returns the digits grouped from
\* the least-significant digit (by 3 under ThreeBlock; the rightmost 3 and
\* then by 2 under TwoBlock), the sign before the first group
C5_Grouping ==
  (FormatCalled /\ IsIntegerValue(number))
    => /\ formatted.kind = "Ok"
       /\ IntegerText(formatted.val, Unwrap(culture))
            = GroupedInteger(number, Unwrap(culture))

\* C5 where the formatter returns: the integer is grouped as the claim says
C5_GroupingWhenReturned ==
  (FormatCalled /\ IsIntegerValue(number) /\ formatted.kind # "Panic")
    => /\ formatted.kind = "Ok"
       /\ IntegerText(formatted.val, Unwrap(culture))
            = GroupedInteger(number, Unwrap(culture))

\* the specifier is the letter N followed by one decimal digit
ValidSpecifier(sp) == Len(sp) = 2 /\ sp[1] = "N" /\ sp[2] \in AsciiDigits

\* C11: a specifier that is not exactly 'N' followed by one decimal digit
\* makes to_format return Err(UnableToDisplayFormat) and no other kind of
\* error; for "N0".."N9" the digit is both the minimum and the maximum
C11_SpecifierValidation ==
  pc = "to_format"
    => IF ValidSpecifier(specifier)
         THEN /\ formatted # Err(UnableToDisplayFormat)
              /\ format = FormatOption_new(DigitValue[specifier[2]],
                                           DigitValue[specifier[2]])
         ELSE formatted = Err(UnableToDisplayFormat)

\* the grouped integer, then the decimal separator and d zeros when d > 0
IntegerWithZeros(n, d, c) ==
  GroupedInteger(n, c)
    \o (IF d > 0
          THEN <<SeparatorChar(CultureSettings(c).decimal_separator)>> \o Zeros(d)
          ELSE <<>>)

\* to_format was called with "N<d>" on a value of a native integer type
IntegerFormatted ==
  pc = "to_format" /\ ValidSpecifier(specifier) /\ IsIntegerValue(number)

\* C12: for every integer n, culture C and d in 1..9, to_format(n, "N<d>", C)
\* is the grouped integer, the decimal separator of C and d zeros; for d = 0
\* it is the grouped integer alone
C12_IntegerFormat ==
  IntegerFormatted
    => formatted = Ok(IntegerWithZeros(number, DigitValue[specifier[2]],
                                       Unwrap(culture)))

\* C12 where the formatter returns: the integer is written as the claim says
C12_IntegerFormatWhenReturned ==
  (IntegerFormatted /\ formatted.kind # "Panic")
    => formatted = Ok(IntegerWithZeros(number, DigitValue[specifier[2]],
                                       Unwrap(culture)))

RECURSIVE AfterChar(_, _)
\* the text after the first occurrence of a character
AfterChar(s, ch) ==
  IF s = <<>> THEN <<>> ELSE IF Head(s) = ch THEN Tail(s) ELSE AfterChar(Tail(s), ch)

\* the fraction digits of the text returned
FractionText(out, c) ==
  AfterChar(out, SeparatorChar(CultureSettings(c).decimal_separator))

\* a text without its leading minus sign
Unsigned(s) == IF s # <<>> /\ Head(s) = "-" THEN Tail(s) ELSE s

\* a finite number was formatted
FiniteFormatted == FormatCalled /\ number.special = ""

\* the fraction digit string is shorter than the minimum of fraction digits
PaddingCase ==
  /\ FiniteFormatted
  /\ format.minimum_fraction_digit >= 1
  /\ Len(number.frac) < format.minimum_fraction_digit

\* C13: a fraction digit string shorter than minimum_fraction_digit is
\* right-padded with zeros to exactly minimum digits, its leading zeros kept,
\* and the integer part is unchanged
C13_ZeroPadding ==
  PaddingCase
    => /\ formatted.kind = "Ok"
       /\ FractionText(formatted.val, Unwrap(culture))
            = number.frac
                \o Zeros(format.minimum_fraction_digit - Len(number.frac))
       /\ Unsigned(IntegerText(formatted.val, Unwrap(culture)))
            = GroupedForm(number.whole, Unwrap(culture))

\* the integer part of the magnitude rounded half up from the fraction digits
RoundedWhole(n) == IF RoundsUp(n, 0) THEN Successor(n.whole) ELSE n.whole

\* C14: when minimum_fraction_digit is 0 the output has no decimal separator
\* and its integer part is the magnitude rounded to the nearest integer from
\* the fraction digit string
C14_RoundedInteger ==
  (FiniteFormatted /\ format.minimum_fraction_digit = 0)
    => /\ formatted.kind = "Ok"
       /\ \A i \in 1..Len(formatted.val) :
            formatted.val[i]
              # SeparatorChar(CultureSettings(Unwrap(culture)).decimal_separator)
       /\ Unsigned(formatted.val)
            = GroupedForm(RoundedWhole(number), Unwrap(culture))

\* the fraction digit string is longer than the maximum of fraction digits
\* and rounding it does not carry into the integer part
RoundingCase ==
  /\ FiniteFormatted
  /\ format.minimum_fraction_digit >= 1
  /\ format.minimum_fraction_digit <= format.maximum_fraction_digit
  /\ Len(number.frac) > format.maximum_fraction_digit
  /\ ~CarryCase(number, format.maximum_fraction_digit)

\* the first k fraction digits, plus one in the last place when the digit
\* after them is 5 or more
RoundedFraction(n, k) ==
  IF RoundsUp(n, k) THEN Successor(SubSeq(n.frac, 1, k)) ELSE SubSeq(n.frac, 1, k)

\* C15: a fraction digit string longer than maximum_fraction_digit whose
\* rounding does not carry is emitted as exactly maximum digits: the digit
\* string rounded half up at position maximum, leading zeros kept
C15_RoundedFraction ==
  RoundingCase
    => /\ formatted.kind = "Ok"
       /\ FractionText(formatted.val, Unwrap(culture))
            = RoundedFraction(number, format.maximum_fraction_digit)

\* C20: to_format never aborts the caller: for every value of every numeric
\* type it returns Ok or a typed Err
C20_NeverAborts ==
  pc = "to_format" => formatted.kind \in {"Ok", "Err"}

\* a negative finite number was formatted and the formatter returned a text
NegativeFormatted ==
  /\ pc \in {"to_format", "to_format_options"}
  /\ number.special = ""
  /\ number.neg
  /\ formatted.kind = "Ok"

\* the text has a digit other than 0
SomeDigitNotZero(out) ==
  \E i \in 1..Len(out) : out[i] \in AsciiDigits \ {"0"}

\* what the formatter returns for the opposite of the number formatted
FormattedOpposite ==
  to_format_options(Display([number EXCEPT !.neg = FALSE]), Unwrap(culture),
                    format, overflow_checks)

\* C27: for every negative number, culture and FormatOption, if the digits
\* emitted are not all zero the output begins with '-' and is '-' followed
\* by the output for the opposite number, also when the integer part is 0
C27_SignPreserved ==
  (NegativeFormatted /\ SomeDigitNotZero(formatted.val))
    => /\ Head(formatted.val) = "-"
       /\ FormattedOpposite.kind = "Ok"
       /\ formatted.val = <<"-">> \o FormattedOpposite.val

\* C27 for the numbers whose integer part emitted is not 0, where the
\* formatter returns for the opposite number too
C27_SignPreservedWholeNotZero ==
  (NegativeFormatted
     /\ SomeDigitNotZero(IntegerText(formatted.val, Unwrap(culture)))
     /\ FormattedOpposite.kind # "Panic")
    => /\ Head(formatted.val) = "-"
       /\ formatted = Ok(<<"-">> \o FormattedOpposite.val)

\* the formatter returned a text for a FormatOption whose minimum is at
\* least 1 and at most its maximum
FractionFormatted ==
  /\ FormatCalled
  /\ formatted.kind = "Ok"
  /\ 1 <= format.minimum_fraction_digit
  /\ format.minimum_fraction_digit <= format.maximum_fraction_digit

\* the decimal separator of the culture of the call
DecimalChar == SeparatorChar(CultureSettings(Unwrap(culture)).decimal_separator)

\* C30: when to_format_options returns Ok for a FormatOption with
\* 1 <= minimum <= maximum, the output holds exactly one decimal separator,
\* followed by digits only, at least minimum and at most maximum of them;
\* to_format with "N<d>", d >= 1, gives exactly d fraction digits
C30_FractionLength ==
  FractionFormatted
    => LET fraction == FractionText(formatted.val, Unwrap(culture))
       IN  /\ Len(SelectSeq(formatted.val, LAMBDA ch : ch = DecimalChar)) = 1
           /\ \A i \in 1..Len(fraction) : fraction[i] \in AsciiDigits
           /\ Len(fraction) >= format.minimum_fraction_digit
           /\ Len(fraction) <= format.maximum_fraction_digit
           /\ pc = "to_format"
                => Len(fraction) = set_nb_digits(specifier).val

\* 0.95 formatted with "N1": the rounding carries and one fraction digit
\* is emitted
C30_Witness ==
  /\ pc = "to_format"
  /\ specifier = <<"N", "1">>
  /\ culture = Some("English")
  /\ number = [special |-> "", neg |-> FALSE, whole |-> <<"0">>,
               frac |-> <<"9", "5">>]
  /\ formatted = Ok(<<"1", ".", "0">>)

(***************************************************************************)
(* Properties of clean and of the conversions                              *)
(***************************************************************************)
\* C3: clean is idempotent for every settings value and every string
C3_CleanIdempotent ==
  (pc = "clean_again" /\ IsSome(settings)) => recleaned = cleaned

\* the thousand separator of the settings removes the canonical decimal point
ThousandMatchesPoint(st) == "." \in to_string_regex(st.thousand_separator)

\* C3 (amended): clean is idempotent for every settings value whose thousand
\* separator does not match the canonical decimal point '.'
C3_CleanIdempotentWithoutPoint ==
  (pc = "clean_again" /\ IsSome(settings)
     /\ ~ThousandMatchesPoint(Unwrap(settings)))
    => recleaned = cleaned

\* a string with a thousand and a decimal separator was cleaned twice under
\* settings whose thousand separator is not the point
C3_Witness ==
  /\ pc = "clean_again"
  /\ IsSome(settings)
  /\ ~ThousandMatchesPoint(Unwrap(settings))
  /\ \E i \in 1..Len(text) : text[i] \in to_string_regex(Unwrap(settings).thousand_separator)
  /\ \E i \in 1..Len(text) : text[i] \in to_string_regex(Unwrap(settings).decimal_separator)
  /\ cleaned # text
  /\ recleaned = cleaned

\* the string without the characters of a set
Without(s, chars) == SelectSeq(s, LAMBDA ch : ch \notin chars)

\* every character of the set from replaced by the character to
Substitute(s, from, to) ==
  [i \in 1..Len(s) |-> IF s[i] \in from THEN to ELSE s[i]]

\* first every occurrence of the character of T deleted, then every
\* occurrence of the character of D replaced by '.'
LiteralClean(s, st) ==
  Substitute(Without(s, {SeparatorChar(st.thousand_separator)}),
             {SeparatorChar(st.decimal_separator)}, ".")

\* first every character the regex atom of T matches deleted, then every
\* character the regex atom of D matches replaced by '.'
AtomClean(s, st) ==
  Substitute(Without(s, to_string_regex(st.thousand_separator)),
             to_string_regex(st.decimal_separator), ".")

\* a conversion with settings was made
ConvertedWithSettings == pc \in {"to_number_separators", "to_number_culture"}

\* C6: to_number_culture / to_number_separators return the native parse of
\* the string with every occurrence of T deleted and then every occurrence
\* of D replaced by '.'
C6_RemovalThenReplacement ==
  ConvertedWithSettings
    => converted = Parse(LiteralClean(text, Unwrap(settings)), target)

\* C6 (amended): they return the native parse of the string with every
\* character matched by the regex atom of T deleted (every whitespace
\* character when T is SPACE) and then every character matched by the atom
\* of D replaced by '.'
C6_RemovalThenReplacementByAtom ==
  ConvertedWithSettings
    => converted = Parse(AtomClean(text, Unwrap(settings)), target)

\* C6 for the settings without SPACE: the literal reading holds
C6_RemovalThenReplacementNoSpace ==
  (ConvertedWithSettings
     /\ Unwrap(settings).thousand_separator # SPACE
     /\ Unwrap(settings).decimal_separator # SPACE)
    => converted = Parse(LiteralClean(text, Unwrap(settings)), target)

\* "-18.888,88" under Italian gives -18888.88
C6_Witness ==
  /\ pc = "to_number_culture"
  /\ culture = Some("Italian")
  /\ text = <<"-", "1", "8", ".", "8", "8", "8", ",", "8", "8">>
  /\ target = "f64"
  /\ converted = Ok([neg |-> TRUE, int |-> <<"1", "8", "8", "8", "8">>,
                     frac |-> <<"8", "8">>])

\* an optional sign, then one or more ASCII digits
IsSignDigits(s) ==
  LET digits == IF Len(s) > 0 /\ s[1] \in Signs THEN Tail(s) ELSE s
  IN  Len(digits) > 0 /\ \A i \in 1..Len(digits) : digits[i] \in AsciiDigits

\* the magnitude of a sign-and-digits string, without leading zeros
Magnitude(s) == Canonical(IF s[1] \in Signs THEN Tail(s) ELSE s)

\* a <= b for two digit strings without leading zeros
MagnitudeLessEq(a, b) ==
  Len(a) < Len(b) \/ (Len(a) = Len(b) /\ DigitsLessEq(a, b))

\* the value of the sign-and-digits string lies in the range of the type
InRange(s, ty) ==
  IF s[1] = "-" /\ Magnitude(s) # <<"0">>
    THEN ty.lo < 0 /\ MagnitudeLessEq(Magnitude(s), NegToDigits(ty.lo))
    ELSE MagnitudeLessEq(Magnitude(s), NatToDigits(ty.hi))

\* the decimal writing of the value of the sign-and-digits string
ValueText(s) ==
  (IF s[1] = "-" /\ Magnitude(s) # <<"0">> THEN <<"-">> ELSE <<>>) \o Magnitude(s)

\* to_number::<N>() of a sign-and-digits string was called for an integer N
IntegerConverted ==
  pc = "to_number" /\ target \in IntegerTypeNames /\ IsSignDigits(text)

\* C7: a sign-and-digits string whose value lies outside the range of the
\* integer type gives Err(UnableToConvertStringToNumber), one whose value
\* lies inside gives Ok of exactly that value
C7_RangeOverflow ==
  IntegerConverted
    => IF InRange(text, IntegerTypes[target])
         THEN converted.kind = "Ok" /\ i32_to_string(converted.val) = ValueText(text)
         ELSE converted = Err(UnableToConvertStringToNumber)

\* C7 (amended): the same, except that a leading '-' is an error for an
\* unsigned type whatever the value ("-0" into u8)
C7_RangeOverflowSigned ==
  IntegerConverted
    => IF InRange(text, IntegerTypes[target])
            /\ (text[1] = "-" => IntegerTypes[target].signed)
         THEN converted.kind = "Ok" /\ i32_to_string(converted.val) = ValueText(text)
         ELSE converted = Err(UnableToConvertStringToNumber)

\* "1000" into i8 is an error
C7_Witness ==
  /\ pc = "to_number"
  /\ target = "i8"
  /\ text = <<"1", "0", "0", "0">>
  /\ converted = Err(UnableToConvertStringToNumber)

\* separators that are not canonical for the native parser
NonCanonicalSeparators == {",", "'", "*"}

\* C10: without settings to_number parses the string with its whitespace
\* characters removed and nothing else: a comma, another non-canonical
\* separator or a second point is an error
C10_WhitespaceOnly ==
  pc = "to_number"
    => /\ converted = Parse(Without(text, Whitespace), target)
       /\ (\E i \in 1..Len(text) : text[i] \in NonCanonicalSeparators)
            => converted = Err(UnableToConvertStringToNumber)
       /\ Cardinality({i \in 1..Len(text) : text[i] = "."}) >= 2
            => converted = Err(UnableToConvertStringToNumber)

\* "1 000" converts to 1000
C10_Witness ==
  /\ pc = "to_number"
  /\ target = "i32"
  /\ text = <<"1", " ", "0", "0", "0">>
  /\ converted = Ok(1000)

\* the string with a character inserted after its first i characters
InsertAt(s, i, ch) == SubSeq(s, 1, i) \o <<ch>> \o SubSeq(s, i + 1, Len(s))

\* the string without its i-th character
RemoveAt(s, i) == SubSeq(s, 1, i - 1) \o SubSeq(s, i + 1, Len(s))

\* the character of the thousand separator of the settings of the call
ThousandChar == SeparatorChar(Unwrap(settings).thousand_separator)

\* C18: thousand separators are ignored wherever they occur: inserting or
\* deleting a character of the thousand separator anywhere in the input
\* leaves the result of to_number_separators unchanged
C18_ThousandSeparatorsIgnored ==
  pc = "to_number_separators"
    => /\ \A i \in 0..Len(text) :
            to_number_separators(InsertAt(text, i, ThousandChar),
                                 Unwrap(settings), target) = converted
       /\ \A i \in 1..Len(text) :
            text[i] = ThousandChar
              => to_number_separators(RemoveAt(text, i),
                                      Unwrap(settings), target) = converted

\* "1,,1" under thousand COMMA, decimal DOT is 11, as "11" and "1,1" are
C18_Witness ==
  /\ pc = "to_number_separators"
  /\ text = <<"1", ",", ",", "1">>
  /\ Unwrap(settings).thousand_separator = COMMA
  /\ Unwrap(settings).decimal_separator = DOT
  /\ target = "i32"
  /\ converted = Ok(11)
  /\ to_number_separators(RemoveAt(text, 2), Unwrap(settings), target) = converted

\* how many characters of the string are in the set
Count(s, chars) == Len(SelectSeq(s, LAMBDA ch : ch \in chars))

\* what is left of the text of the call once the thousand separator is removed
WithoutThousand ==
  Without(text, to_string_regex(Unwrap(settings).thousand_separator))

\* the text left holds two decimal separators, or one and a canonical point
SeveralPoints ==
  LET de == to_string_regex(Unwrap(settings).decimal_separator)
  IN  \/ Count(WithoutThousand, de) >= 2
      \/ Count(WithoutThousand, de) >= 1 /\ Count(WithoutThousand, {"."} \ de) >= 1

\* C19: an input that, after removal of the thousand separator, contains two
\* or more decimal separators, or a decimal separator together with the
\* canonical '.', yields Err(UnableToConvertStringToNumber) for every
\* numeric target type
C19_SeveralPointsRejected ==
  (pc = "to_number_separators" /\ SeveralPoints)
    => converted = Err(UnableToConvertStringToNumber)

\* "10,000,000" under thousand SPACE, decimal COMMA is an error
C19_Witness ==
  /\ pc = "to_number_separators"
  /\ text = <<"1", "0", ",", "0", "0", "0", ",", "0", "0", "0">>
  /\ target = "i32"
  /\ Unwrap(settings).thousand_separator = SPACE
  /\ Unwrap(settings).decimal_separator = COMMA
  /\ SeveralPoints
  /\ converted = Err(UnableToConvertStringToNumber)

\* clean() was called on a string with settings
CleanedWithSettings == pc = "clean" /\ IsSome(settings)

\* the separators of the settings clean() was called with
CleanSeparators ==
  {Unwrap(settings).thousand_separator, Unwrap(settings).decimal_separator}

\* C29: the characters matched by a separator's regex atom are exactly the
\* character of its literal rendering, for every variant, so clean removes
\* the thousand separator's character and replaces the decimal separator's
\* character only (under French the space, not a tab)
C29_AtomIsLiteral ==
  CleanedWithSettings
    => /\ \A sep \in CleanSeparators : to_string_regex(sep) = {SeparatorChar(sep)}
       /\ cleaned = LiteralClean(text, Unwrap(settings))

\* the characters a separator stands for: its character, and every
\* whitespace character for SPACE
SeparatorCharacters(sep) ==
  IF sep.kind = "SPACE" THEN Whitespace ELSE {SeparatorChar(sep)}

\* C29 (amended): the atom of DOT, COMMA, APOSTROPHE and CUSTOM(c) matches
\* exactly the character of the literal rendering; the atom of SPACE matches
\* every whitespace character, the space included, and clean treats each of
\* them as the separator
C29_AtomIsLiteralOrWhitespace ==
  CleanedWithSettings
    => /\ \A sep \in CleanSeparators :
            /\ to_string_regex(sep) = SeparatorCharacters(sep)
            /\ SeparatorChar(sep) \in to_string_regex(sep)
       /\ cleaned
            = Substitute(Without(text, SeparatorCharacters(
                                         Unwrap(settings).thousand_separator)),
                         SeparatorCharacters(Unwrap(settings).decimal_separator),
                         ".")

\* with SPACE as thousand separator a tab between the digits is removed
C29_Witness ==
  /\ pc = "clean"
  /\ settings = Some(CultureSettings("French"))
  /\ text = <<"1", "\t", "1">>
  /\ cleaned = <<"1", "1">>

(***************************************************************************)
(* Properties of the patterns                                              *)
(***************************************************************************)
\* C4: for every settings value and every string at most one of the five
\* shape patterns matches
C4_ShapeExclusivity ==
  pc = "matched" => Cardinality(shapes) <= 1

\* C4 for the settings made of two of SPACE, DOT, COMMA
C4_ShapeExclusivityFixed ==
  (pc = "matched"
     /\ Unwrap(settings).thousand_separator.kind # "CUSTOM"
     /\ Unwrap(settings).decimal_separator.kind # "CUSTOM")
    => Cardinality(shapes) <= 1

\* the characters of the fixed separators
SeparatorChars == {SeparatorChar(sep) : sep \in {SPACE, DOT, COMMA, APOSTROPHE}}

\* the culture the classification uses
ClassifiedCulture == IF IsSome(culture) THEN Unwrap(culture) ELSE DefaultCulture

\* two adjacent separator characters ("1..0", "1.,0")
AdjacentSeparators(s) ==
  \E i \in 1..(Len(s) - 1) : s[i] \in SeparatorChars /\ s[i + 1] \in SeparatorChars

\* two signs ("+-0.2")
TwoSigns(s) == Cardinality({i \in 1..Len(s) : s[i] \in Signs}) >= 2

\* a separator before the leading separator of a decimal number (",1.0")
SeparatorBeforeLeadingSeparator(s) ==
  /\ Len(s) > 0
  /\ s[1] \in SeparatorChars
  /\ \E i \in 2..Len(s) : s[i] \in SeparatorChars

\* the number of ASCII digits that follow position i
DigitRun(s, i) ==
  Cardinality({j \in (i + 1)..Len(s) :
                 \A k \in (i + 1)..j : s[k] \in AsciiDigits})

\* a thousand separator followed by a group that is not exactly 3 digits
BadThousandGroup(s, c) ==
  \E i \in 1..Len(s) :
    /\ s[i] = SeparatorChar(CultureSettings(c).thousand_separator)
    /\ DigitRun(s, i) # 3

\* two decimal separators ("-0,2245,45")
TwoDecimalSeparators(s, c) ==
  Cardinality({i \in 1..Len(s) :
                 s[i] = SeparatorChar(CultureSettings(c).decimal_separator)}) >= 2

Malformed(s, c) ==
  \/ AdjacentSeparators(s)
  \/ TwoSigns(s)
  \/ SeparatorBeforeLeadingSeparator(s)
  \/ BadThousandGroup(s, c)
  \/ TwoDecimalSeparators(s, c)

\* C8: under no culture, English, French or Italian, a string with two
\* adjacent separators, two signs, a separator before a leading separator, a
\* thousand group that is not 3 digits or two decimal separators is not
\* numeric
C8_MalformedNeverNumeric ==
  (pc = "classified" /\ ClassifiedCulture \in {"English", "French", "Italian"}
     /\ Malformed(text, ClassifiedCulture))
    => ~is_numeric(text, culture) /\ pattern = None

\* "20 00" under French is not numeric
C8_Witness ==
  /\ pc = "classified"
  /\ culture = Some("French")
  /\ text = <<"2", "0", " ", "0", "0">>
  /\ Malformed(text, "French")
  /\ pattern = None

\* the ASCII digit of a decimal digit character
PlainDigit(ch) == IF ch = ArabicThree THEN "3" ELSE ch

\* the sign and the digits of a string classified WHOLE
WholeText(s) ==
  LET kept == SelectSeq(s, LAMBDA ch : ch \in Signs \cup UnicodeDigits)
  IN  [i \in 1..Len(kept) |-> PlainDigit(kept[i])]

\* the decimal value a classified string writes under the culture: its
\* digits before and after the decimal separator
WrittenValue(s, c) ==
  LET D == to_string_regex(CultureSettings(c).decimal_separator)
      at == {i \in 1..Len(s) : s[i] \in D}
      dot == IF at = {} THEN Len(s) + 1 ELSE CHOOSE i \in at : TRUE
      digits(x) == LET kept == SelectSeq(x, LAMBDA ch : ch \in UnicodeDigits)
                   IN  [i \in 1..Len(kept) |-> PlainDigit(kept[i])]
  IN  DecimalValue(s[1] = "-",
                   digits(SubSeq(s, 1, dot - 1)),
                   digits(SubSeq(s, dot + 1, Len(s))))

\* a string classified under French, English or Italian was converted
ConvertedClassified ==
  /\ pc = "converted"
  /\ IsSome(culture)
  /\ Unwrap(culture) \in {"French", "English", "Italian"}
  /\ IsSome(pattern)

\* what the claim C9 says of the conversion of a classified string
ConversionAgrees ==
  LET kind == NumberType(Unwrap(pattern).type_parsing)
  IN  /\ (target = "i32" /\ kind = "WHOLE" /\ InRange(WholeText(text), IntegerTypes.i32))
        => /\ converted.kind = "Ok"
           /\ i32_to_string(converted.val) = ValueText(WholeText(text))
      /\ (target = "i32" /\ kind = "DECIMAL")
        => converted = Err(UnableToConvertStringToNumber)
      /\ target = "f32"
        => converted = Ok(WrittenValue(text, Unwrap(culture)))

\* C9: under French, English and Italian a string classified WHOLE converts
\* to the i32 of its value when it fits, a string classified DECIMAL gives
\* Err(UnableToConvertStringToNumber) for i32, and both convert to f32
C9_ClassificationConversionAgree ==
  ConvertedClassified => ConversionAgrees

\* C9 for the strings of ASCII characters
C9_ClassificationConversionAgreeAscii ==
  (ConvertedClassified /\ \A i \in 1..Len(text) : text[i] # ArabicThree)
    => ConversionAgrees


\* the types of parsing of a whole number and of a decimal number
WholeTypes == {"WholeSimple", "WholeThousandSeparator"}

DecimalTypes ==
  {"DecimalSimple", "DecimalWithoutWholePart", "DecimalThousandSeparator"}

\* C16: is_numeric is true exactly when a pattern is found, is_integer
\* exactly when the found pattern's kind is WHOLE, is_float exactly when it is
\* DECIMAL; is_integer and is_float are never both true, and is_numeric holds
\* iff one of them does
C16_Classification ==
  pc = "classified"
    => /\ is_numeric(text, culture) <=> IsSome(pattern)
       /\ is_integer(text, culture)
            <=> (IsSome(pattern) /\ Unwrap(pattern).type_parsing \in WholeTypes)
       /\ is_float(text, culture)
            <=> (IsSome(pattern) /\ Unwrap(pattern).type_parsing \in DecimalTypes)
       /\ ~(is_integer(text, culture) /\ is_float(text, culture))
       /\ is_numeric(text, culture)
            <=> (is_integer(text, culture) \/ is_float(text, culture))

\* "10,000" under English is found by the whole pattern with thousand
\* separators: numeric, an integer and not a float
C16_Witness ==
  /\ pc = "classified"
  /\ culture = Some("English")
  /\ text = <<"1", "0", ",", "0", "0", "0">>
  /\ IsSome(pattern)
  /\ Unwrap(pattern).type_parsing = "WholeThousandSeparator"
  /\ is_numeric(text, culture)
  /\ is_integer(text, culture)
  /\ ~is_float(text, culture)


\* the order in which find_pattern tries the types of parsing
ClassificationOrder ==
  <<"WholeSimple", "DecimalSimple", "DecimalWithoutWholePart",
    "WholeThousandSeparator", "DecimalThousandSeparator">>

\* the pattern tried in k-th place: WholeSimple is independent of the
\* culture, the others carry the settings of the culture
PatternTried(k) ==
  [type_parsing |-> ClassificationOrder[k],
   settings |-> IF k = 1 THEN None ELSE Some(CultureSettings(ClassifiedCulture))]

\* the places of the patterns that match the whole text classified
MatchingPlaces ==
  {k \in 1..Len(ClassificationOrder) :
     is_match(PatternTried(k).type_parsing, PatternTried(k).settings, text)}

\* C21: find_pattern tries WholeSimple first and then the culture's
\* DecimalSimple, DecimalWithoutWholePart, WholeThousandSeparator and
\* DecimalThousandSeparator; it returns the first of them that matches the
\* whole string, and None exactly when none matches
C21_FirstMatch ==
  pc = "classified"
    => IF MatchingPlaces = {}
         THEN pattern = None
         ELSE /\ IsSome(pattern)
              /\ \E k \in MatchingPlaces :
                   /\ \A j \in MatchingPlaces : k <= j
                   /\ Unwrap(pattern) = PatternTried(k)

\* "10,000" under English is found by the culture's WholeThousandSeparator
\* pattern, tried in fourth place
C21_Witness ==
  /\ pc = "classified"
  /\ culture = Some("English")
  /\ text = <<"1", "0", ",", "0", "0", "0">>
  /\ MatchingPlaces = {4}
  /\ pattern = Some([type_parsing |-> "WholeThousandSeparator",
                     settings |-> Some(CultureSettings("English"))])

\* a text without its leading sign
Unsign(s) == IF s # <<>> /\ Head(s) \in Signs THEN Tail(s) ELSE s

\* the settings the shapes were matched with, and the characters their
\* thousand separator stands for
ShapeSettings == Unwrap(settings)

ThousandChars == to_string_regex(ShapeSettings.thousand_separator)

\* from position from on, the body is groups of a thousand separator
\* followed by exactly size digits
GroupsOf(body, from, size) ==
  /\ (Len(body) - from + 1) % (size + 1) = 0
  /\ \A j \in from..Len(body) :
       IF (j - from) % (size + 1) = 0
         THEN body[j] \in ThousandChars
         ELSE body[j] \in AsciiDigits

\* an optional sign, between least and most leading digits, then one or
\* more groups of a thousand separator and exactly 3 digits
GroupedByThree(s, least, most) ==
  LET body == Unsign(s)
  IN  \E lead \in least..most :
        /\ lead + 4 <= Len(body)
        /\ \A i \in 1..lead : body[i] \in AsciiDigits
        /\ GroupsOf(body, lead + 1, 3)

\* the shapes of a ThreeBlock settings value were matched
ThreeBlockMatched ==
  pc = "matched" /\ ShapeSettings.thousand_grouping = "ThreeBlock"

\* C22: under ThreeBlock a string matches WholeThousandSeparator if and only
\* if it is an optional sign, 1 to 3 leading digits, then one or more
\* repetitions of a thousand separator followed by exactly 3 digits
C22_ThreeBlockGrammar ==
  ThreeBlockMatched
    => ("WholeThousandSeparator" \in shapes <=> GroupedByThree(text, 1, 3))

\* C22 with any number of leading digits, at least one
C22_ThreeBlockGrammarAnyLead ==
  ThreeBlockMatched
    => ("WholeThousandSeparator" \in shapes
          <=> GroupedByThree(text, 1, Len(text)))

\* an optional sign, between least and 3 leading digits, then groups of a
\* thousand separator and exactly 2 digits, then one group of a thousand
\* separator and exactly 3 digits
GroupedByTwo(s, least) ==
  LET body == Unsign(s)
  IN  \E lead \in least..3 :
        /\ lead + 4 <= Len(body)
        /\ \A i \in 1..lead : body[i] \in AsciiDigits
        /\ GroupsOf(SubSeq(body, 1, Len(body) - 4), lead + 1, 2)
        /\ GroupsOf(body, Len(body) - 3, 3)

\* the shapes of a TwoBlock settings value were matched
TwoBlockMatched ==
  pc = "matched" /\ ShapeSettings.thousand_grouping = "TwoBlock"

\* C23: under TwoBlock a string matches WholeThousandSeparator if and only
\* if it is an optional sign, 1 to 3 leading digits, zero or more repetitions
\* of a thousand separator followed by exactly 2 digits, then one thousand
\* separator followed by exactly 3 digits; a string with no digit before the
\* first separator does not match
C23_TwoBlockGrammar ==
  TwoBlockMatched
    => ("WholeThousandSeparator" \in shapes <=> GroupedByTwo(text, 1))

\* C23 with 0 to 3 leading digits
C23_TwoBlockGrammarFromZero ==
  TwoBlockMatched
    => ("WholeThousandSeparator" \in shapes <=> GroupedByTwo(text, 0))

\* the string of a ConvertString built with no culture was classified and
\* converted, and is written with ASCII characters
ConvertedWithoutCulture ==
  /\ pc = "converted"
  /\ culture = None
  /\ \A i \in 1..Len(text) : text[i] # ArabicThree

\* what the claim C26 says of a conversion: a numeric string converts to a
\* float, a string that is an integer converts to an integer
ConversionSucceeds ==
  /\ (is_numeric(text, culture) /\ target \in FloatTypeNames)
       => converted.kind = "Ok"
  /\ (is_integer(text, culture) /\ target \in IntegerTypeNames)
       => converted.kind = "Ok"

\* C26: for a ConvertString built with culture None, whenever is_numeric()
\* is true the conversion to a float returns Ok, and whenever is_integer()
\* is true the conversion to an integer returns Ok
C26_NoCultureAgreement ==
  ConvertedWithoutCulture => ConversionSucceeds

\* C26 for the strings that hold no thousand separator of the default culture
C26_NoCultureAgreementUngrouped ==
  (ConvertedWithoutCulture
     /\ \A i \in 1..Len(text) :
          text[i] # SeparatorChar(CultureSettings(DefaultCulture).thousand_separator))
    => ConversionSucceeds

\* the built-in cultures whose digits are grouped by three
ThreeBlockCultures == {"English", "French", "Italian"}

\* NumberType of the pattern found for a string, "" when none is found
KindOf(s, c) ==
  LET pp == get_current_pattern(s, Some(c))
  IN  IF IsSome(pp) THEN NumberType(Unwrap(pp).type_parsing) ELSE ""

\* the string without the characters its culture's thousand separator matches
Ungrouped(s, c) ==
  Without(s, to_string_regex(CultureSettings(c).thousand_separator))

\* a numeric string of a culture grouped by three has been classified, and
\* it holds a thousand separator
GroupedClassified ==
  /\ pc = "classified"
  /\ IsSome(culture)
  /\ Unwrap(culture) \in ThreeBlockCultures
  /\ IsSome(pattern)
  /\ Ungrouped(text, Unwrap(culture)) # text

\* C28: under English, French and Italian a string classified as numeric
\* is, once its thousand separators are deleted, classified as numeric with
\* the same kind, the grouped decimals that end with the decimal separator
\* included
C28_GroupingIrrelevant ==
  GroupedClassified
    => KindOf(Ungrouped(text, Unwrap(culture)), Unwrap(culture))
         = NumberType(Unwrap(pattern).type_parsing)

\* C28 for the strings that do not end with the decimal separator
C28_GroupingIrrelevantWithFraction ==
  (GroupedClassified
     /\ text[Len(text)]
          \notin to_string_regex(CultureSettings(Unwrap(culture)).decimal_separator))
    => KindOf(Ungrouped(text, Unwrap(culture)), Unwrap(culture))
         = NumberType(Unwrap(pattern).type_parsing)

(***************************************************************************)
(* Properties of the settings                                              *)
(***************************************************************************)
\* C17: every NumberCultureSettings obtained from new, with_grouping,
\* From<Culture> or From<(&str, &str)> has thousand_separator different from
\* decimal_separator; a construction with identical separators never yields
\* a settings value; with_grouping changes only the grouping
C17_SeparatorsDiffer ==
  /\ built.kind = "Ok"
       => built.val.thousand_separator # built.val.decimal_separator
  /\ (requested.op \in {"new", "from_strs"}
        /\ requested.args[1] = requested.args[2])
       => built.kind # "Ok"
  /\ requested.op = "with_grouping"
       => /\ built.kind = "Ok"
          /\ built.val.thousand_separator = requested.args[1].thousand_separator
          /\ built.val.decimal_separator = requested.args[1].decimal_separator
          /\ built.val.thousand_grouping = requested.args[2]

\* with_grouping(TwoBlock) of the settings new(APOSTROPHE, DOT) yielded
C17_Witness ==
  /\ pc = "with_grouping"
  /\ requested.args[1] = NumberCultureSettings_new(APOSTROPHE, DOT).val
  /\ requested.args[2] = "TwoBlock"
  /\ built = Ok([thousand_separator |-> APOSTROPHE,
                 decimal_separator |-> DOT,
                 thousand_grouping |-> "TwoBlock"])

\* new with the separator CUSTOM('|') twice yields no settings value
C17_IdenticalRejected ==
  (requested.op = "new" /\ requested.args = <<CUSTOM("|"), CUSTOM("|")>>)
    => built = Panic

\* C24: two Separator values compare equal if and only if they render to
\* the same character (CUSTOM(',') equals COMMA), so that no
\* NumberCultureSettings can be constructed whose thousand and decimal
\* separators render to the same character
C24_RenderedEquality ==
  /\ requested.op = "new"
       => (Separator_eq(requested.args[1], requested.args[2])
             <=> SeparatorChar(requested.args[1]) = SeparatorChar(requested.args[2]))
  /\ built.kind = "Ok"
       => SeparatorChar(built.val.thousand_separator)
            # SeparatorChar(built.val.decimal_separator)

(***************************************************************************)
(* Properties of the registry                                              *)
(***************************************************************************)
\* what find_pattern returns for the text and culture searched with the
\* registry as NumberPatterns::default() builds it
FoundByDefault ==
  find_pattern(text, Unwrap(culture), NumberPatterns_default)

\* the registry as built holds one common pattern, WholeSimple, and one
\* CulturePattern for each culture
BuiltRegistry ==
  /\ Len(NumberPatterns_default.common_pattern) = 1
  /\ NumberPatterns_default.common_pattern[1].type_parsing = "WholeSimple"
  /\ \A c \in Cultures :
       Cardinality({i \in 1..Len(NumberPatterns_default.culture_pattern) :
                      NumberPatterns_default.culture_pattern[i].value = c}) = 1
  /\ Len(NumberPatterns_default.culture_pattern) = Cardinality(Cultures)

CommonAdded ==
  Len(all_patterns.common_pattern) > Len(NumberPatterns_default.common_pattern)

====
